---- MODULE Spec2Model ----
(***************************************************************************)
(* A model of xword-vim (src/xword.py): the Puzzle built from acr solution   *)
(* grid, its Squares and Words with their links, and the Cursor whose      *)
(* methods are the vim-like motions and edits.                             *)
(*                                                                         *)
(* A Square is identified by its coordinates <<px, py>> (0-based); its       *)
(* fields (guess, status, prev, next, word) are functions over squares.    *)
(* Python's None is the empty tuple.  A method that can raise returns acr    *)
(* record whose field "raised" names the exception ("none" when it         *)
(* returns normally).                                                      *)
(***************************************************************************)
EXTENDS Integers, Sequences, FiniteSets, TLC

\* ------------------------------------------------------------- bounds
MaxWidth == 3
MaxHeight == 3
\* the largest grid, in entries, and the most blocked entries in a grid
MaxCells == 9
MaxBlocked == 1
\* the editing specification: the largest grid (in entries) and the number of
\* editing calls in a run
MaxEditCells == 3
MaxEdits == 2
\* the most characters typed in a row before they are taken back
MaxTyped == 3

\* ------------------------------------------------------------- enums
ACROSS == "ACROSS"
DOWN == "DOWN"
\* enum order of Direction: iteration yields ACROSS, then DOWN
Direction == <<ACROSS, DOWN>>
Directions == {ACROSS, DOWN}

NORMAL == "NORMAL"
PENCILLED_IN == "PENCILLED_IN"
MARKED_WRONG == "MARKED_WRONG"
MARKED_RIGHT == "MARKED_RIGHT"
REVEALED == "REVEALED"
Status == {NORMAL, PENCILLED_IN, MARKED_WRONG, MARKED_RIGHT, REVEALED}

None == <<>>
NoError == "none"

VARIABLES
    width,      \* Puzzle.width
    height,     \* Puzzle.height
    grid,       \* Puzzle.grid: grid[y+1][x+1] is a square <<x, y>> or None
    solution,   \* Square.solution, per square
    words,      \* Puzzle.words: direction -> sequence of words
    sqprev,     \* Square.prev: square -> direction -> square or None
    sqnext,     \* Square.next: square -> direction -> square or None
    sqword,     \* Square.word: square -> (direction -> index into words[direction])
    guess,      \* Square.guess, per square: <<char>>, or None when empty
    status,     \* Square.status, per square
    cursor,     \* the driver's current Cursor: [square, direction]
    lastOp,     \* name of the Cursor method called last ("init" before any)
    lastArg,    \* its argument: <<char>>, <<count>> or None
    from,       \* the Cursor it was called on
    raised,     \* the exception that call raised, or "none"
    edits,      \* the number of editing calls made so far
    returned,   \* what the last call of a Puzzle method returned (None before any)
    mode,       \* Game.mode
    message     \* Game.message, or None

puzzleVars == <<width, height, grid, solution, words, sqprev, sqnext, sqword>>
gameVars == <<mode, message>>
vars == <<width, height, grid, solution, words, sqprev, sqnext, sqword,
          guess, status, cursor, lastOp, lastArg, from, raised, edits, returned,
          mode, message>>

\* Mode.NORMAL and Mode.INSERT
MODE_NORMAL == "Mode.NORMAL"
MODE_INSERT == "Mode.INSERT"

\* ------------------------------------------------------------- helpers
sign(n) == (IF n > 0 THEN 1 ELSE 0) - (IF n < 0 THEN 1 ELSE 0)

other(dir) == IF dir = ACROSS THEN DOWN ELSE ACROSS

\* ------------------------------------------------------------- input
\* The letter of the solution at flat index i (0-based) of a non-blocked entry.
Letter(ix) == IF ix % 2 = 0 THEN "A" ELSE "B"

\* data.solution of a puzzle file: the flat, row-major solution string of a
\* w x h grid whose blocked entries ('.') are those at the flat indices in B.
SolutionString(cols, rows, blocked) ==
    [ix \in 1..(cols * rows) |-> IF (ix - 1) \in blocked THEN "." ELSE Letter(ix - 1)]

\* ------------------------------------------------------------- numbering
\* data.clue_numbering() of the puzzle-file library: the runs of each
\* direction with their clue numbers, as the specification's grid
\* construction describes them (maximal runs of non-blocked cells, runs of
\* length 1 included; run starts numbered 1, 2, ... in row-major order, one
\* number per start cell).  An entry is [num, cell, len], cell being the flat
\* index of the run's first cell.
RECURSIVE RunLength(_, _, _, _)
RunLength(sol, ix, step, n) ==
    IF n = 0 \/ sol[ix + 1] = "."
    THEN 0
    ELSE 1 + RunLength(sol, ix + step, step, n - 1)

RECURSIVE NumberFrom(_, _, _, _, _, _, _)
NumberFrom(sol, cols, rows, ix, n, acr, dir) ==
    IF ix >= cols * rows THEN [across |-> acr, down |-> dir]
    ELSE IF sol[ix + 1] = "." THEN NumberFrom(sol, cols, rows, ix + 1, n, acr, dir)
    ELSE LET is_across == (ix % cols = 0) \/ sol[ix] = "."
             is_down   == (ix \div cols = 0) \/ sol[ix + 1 - cols] = "."
             a2 == IF is_across
                   THEN Append(acr, [num |-> n, cell |-> ix,
                                   len |-> RunLength(sol, ix, 1, cols - (ix % cols))])
                   ELSE acr
             d2 == IF is_down
                   THEN Append(dir, [num |-> n, cell |-> ix,
                                   len |-> RunLength(sol, ix, cols, rows - (ix \div cols))])
                   ELSE dir
         IN NumberFrom(sol, cols, rows, ix + 1,
                       IF is_across \/ is_down THEN n + 1 ELSE n, a2, d2)

clue_numbering(sol, cols, rows) == NumberFrom(sol, cols, rows, 0, 1, <<>>, <<>>)

\* ------------------------------------------------------------- Puzzle.__init__
\* self.grid: the solution cut into rows of data.width entries, each entry a
\* Square(x, y, solution, None) or None for '.'.
BuildGrid(sol, cols) ==
    [y1 \in 1..(Len(sol) \div cols) |->
        [x1 \in 1..cols |->
            IF sol[(y1 - 1) * cols + x1] # "." THEN <<x1 - 1, y1 - 1>> ELSE None]]

\* the first lines of Puzzle.__init__: self.grid, self.width and self.height
\* of a solution string and a width (zip stops at the last whole row; with no
\* whole row self.grid[0] raises IndexError)
GridOf(sol, cols) ==
    IF Len(BuildGrid(sol, cols)) = 0
    THEN [raised |-> "IndexError", grid |-> None, width |-> 0, height |-> 0]
    ELSE [raised |-> NoError,
          grid   |-> BuildGrid(sol, cols),
          width  |-> Len(BuildGrid(sol, cols)[1]),
          height |-> Len(BuildGrid(sol, cols))]

\* the Squares of a grid
SquaresOf(grd) ==
    {grd[y1][x1] : y1 \in DOMAIN grd, x1 \in 1..(IF Len(grd) = 0 THEN 0 ELSE Len(grd[1]))}
        \ {None}

\* get_square without the test of the lower bounds: a negative index counts
\* from the end of the list
GridSquareFromEnd(grd, cols, rows, px, py) ==
    IF ~(px < cols /\ py < rows)
    THEN [raised |-> "IndexError", square |-> None]
    ELSE [raised |-> NoError, square |-> grd[((py + rows) % rows) + 1][((px + cols) % cols) + 1]]

\* Puzzle.get_square on a grid g of the given width and height
GridSquare(grd, cols, rows, px, py) ==
    IF ~(0 <= px /\ px < cols /\ 0 <= py /\ py < rows)
    THEN [raised |-> "IndexError", square |-> None]
    ELSE [raised |-> NoError, square |-> grd[py + 1][px + 1]]

\* the squares of an entry, collected from its last cell to its first
EntrySquaresReversed(grd, cols, rows, entry, dir) ==
    [kk \in 1..entry.len |->
        LET offset == IF dir = DOWN THEN (entry.len - kk) * cols ELSE entry.len - kk
            py == (entry.cell + offset) \div cols
            px == (entry.cell + offset) % cols
        IN GridSquare(grd, cols, rows, px, py).square]

\* the squares of one numbering entry in direction d
EntrySquares(grd, cols, rows, entry, dir) ==
    [kk \in 1..entry.len |->
        LET offset == IF dir = DOWN THEN (kk - 1) * cols ELSE kk - 1
            py == (entry.cell + offset) \div cols
            px == (entry.cell + offset) % cols
        IN GridSquare(grd, cols, rows, px, py).square]

\* self.words[direction] before linking: Word(squares, clue), prev = next = None
\* (a Word is referred to by its index in the list; 0 stands for None)
BuildWords(grd, cols, rows, entries, dir) ==
    [ix \in 1..Len(entries) |->
        [squares |-> EntrySquares(grd, cols, rows, entries[ix], dir),
         number  |-> entries[ix].num,
         prev    |-> 0,
         next    |-> 0]]

\* linking that sets word.prev and forgets prev_word.next
RECURSIVE LinkWordsOneWay(_, _)
LinkWordsOneWay(ws, ix) ==
    IF ix > Len(ws) THEN ws
    ELSE LinkWordsOneWay([ws EXCEPT ![ix].prev = ix - 1], ix + 1)

\* the loop "for word in words" linking each word to the one before it
RECURSIVE LinkWords(_, _)
LinkWords(ws, ix) ==
    IF ix > Len(ws) THEN ws
    ELSE LinkWords([ws EXCEPT ![ix].prev = ix - 1, ![ix - 1].next = ix], ix + 1)

\* the squares of the words of one direction, in the order the loops visit them
RECURSIVE Chain(_, _)
Chain(ws, ix) ==
    IF ix > Len(ws) THEN <<>> ELSE ws[ix].squares \o Chain(ws, ix + 1)

\* linking that joins a square only to a neighbour on the grid, so that the
\* chain stops at the end of every run
RECURSIVE LinkSquaresInsideRuns(_, _, _, _)
LinkSquaresInsideRuns(chain, ix, dir, links) ==
    IF ix > Len(chain) THEN links
    ELSE LinkSquaresInsideRuns(chain, ix + 1, dir,
            IF chain[ix] = <<chain[ix - 1][1] + (IF dir = ACROSS THEN 1 ELSE 0),
                             chain[ix - 1][2] + (IF dir = ACROSS THEN 0 ELSE 1)>>
            THEN [prev |-> [links.prev EXCEPT ![chain[ix]][dir] = chain[ix - 1]],
                  next |-> [links.next EXCEPT ![chain[ix - 1]][dir] = chain[ix]]]
            ELSE links)

\* the loop "for square in word" linking each square to the one visited
\* before it (prev_square carries over from one word to the next)
RECURSIVE LinkSquares(_, _, _, _)
LinkSquares(chain, ix, dir, links) ==
    IF ix > Len(chain) THEN links
    ELSE LinkSquares(chain, ix + 1, dir,
            [prev |-> [links.prev EXCEPT ![chain[ix]][dir] = chain[ix - 1]],
             next |-> [links.next EXCEPT ![chain[ix - 1]][dir] = chain[ix]]])

\* square.word after the linking loops: for each direction in which some word
\* holds the square, the word that set it last
WordOf(ws, sq) ==
    LET holds(dir) == {ix \in 1..Len(ws[dir]) :
                        \E kk \in 1..Len(ws[dir][ix].squares) : ws[dir][ix].squares[kk] = sq}
    IN [dir \in {dir2 \in Directions : holds(dir2) # {}} |->
            CHOOSE ix \in holds(dir) : \A j \in holds(dir) : j <= ix]

\* The Puzzle constructed from data
Puzzle(sol, cols, rows) ==
    LET grd         == BuildGrid(sol, cols)
        pw        == IF Len(grd) = 0 THEN 0 ELSE Len(grd[1])
        ph        == Len(grd)
        numbering == clue_numbering(sol, cols, rows)
        ws0       == [dir \in Directions |->
                        BuildWords(grd, pw, ph,
                                   IF dir = ACROSS THEN numbering.across
                                                 ELSE numbering.down, dir)]
        ws        == [dir \in Directions |-> LinkWords(ws0[dir], 2)]
        squares   == SquaresOf(grd)
        unlinked  == [prev |-> [sq \in squares |-> [dir \in Directions |-> None]],
                      next |-> [sq \in squares |-> [dir \in Directions |-> None]]]
        linkedA   == LinkSquares(Chain(ws[ACROSS], 1), 2, ACROSS, unlinked)
        linked    == LinkSquares(Chain(ws[DOWN], 1), 2, DOWN, linkedA)
    IN [grid     |-> grd,
        width    |-> pw,
        height   |-> ph,
        solution |-> [sq \in squares |-> sol[sq[2] * cols + sq[1] + 1]],
        words    |-> ws,
        prev     |-> linked.prev,
        next     |-> linked.next,
        word     |-> [sq \in squares |-> WordOf(ws, sq)]]

\* ------------------------------------------------------------- Puzzle methods
Squares == DOMAIN guess

get_square(px, py) == GridSquare(grid, width, height, px, py)

\* self.words[direction][0][0]
first_square(dir) ==
    IF Len(words[dir]) = 0
    THEN [raised |-> "IndexError", square |-> None]
    ELSE [raised |-> NoError, square |-> words[dir][1].squares[1]]

\* last_square that hands back the first square of the direction
last_square_as_first(dir) == first_square(dir)

\* self.words[direction][-1][-1]
last_square(dir) ==
    IF Len(words[dir]) = 0
    THEN [raised |-> "IndexError", square |-> None]
    ELSE LET wd == words[dir][Len(words[dir])]
         IN [raised |-> NoError, square |-> wd.squares[Len(wd.squares)]]

\* ------------------------------------------------------------- Square methods
is_start(sq, dir) == sq = words[dir][sqword[sq][dir]].squares[1]

is_end(sq, dir) ==
    LET wd == words[dir][sqword[sq][dir]] IN sq = wd.squares[Len(wd.squares)]

\* the characters a driver passes to the editing methods: a lower-case
\* letter, an upper-case letter and a character that is not alphanumeric
Chars == {"a", "B", "-"}

\* str.isalnum, str.isupper and str.upper on these characters and on the
\* lower-case letter sharp s, whose upper case is the two letters SS
isalnum(char) == char \in {"a", "B", "j", "1", "sharp s"}

\* isupper that takes every alphanumeric character for an upper-case letter
isupper_alnum(char) == isalnum(char)

isupper(char) == char = "B"
upper(char) ==
    IF char = "a" THEN "A"
    ELSE IF char = "j" THEN "J"
    ELSE IF char = "sharp s" THEN "SS"
    ELSE char

\* The mutable fields of all squares, as the editing methods see them.
Cells(gs, st) == [guess |-> gs, status |-> st, raised |-> NoError]

\* set that stores the character before it tests it
set_then_check(cells, sq, char) ==
    LET stored == [cells EXCEPT !.guess[sq] = <<upper(char)>>,
                                !.status[sq] = IF isupper(char) THEN PENCILLED_IN ELSE NORMAL]
    IN IF ~isalnum(char) THEN [stored EXCEPT !.raised = "ValueError"] ELSE stored

\* Square.set
set(cells, sq, char) ==
    IF ~isalnum(char)
    THEN [cells EXCEPT !.raised = "ValueError"]
    ELSE [cells EXCEPT !.guess[sq] = <<upper(char)>>,
                       !.status[sq] = IF isupper(char) THEN PENCILLED_IN ELSE NORMAL]

\* unset that forgets to reset the status
unset_guess_only(cells, sq) ==
    [cells EXCEPT !.guess[sq] = None]

\* Square.unset
unset(cells, sq) ==
    [cells EXCEPT !.guess[sq] = None, !.status[sq] = NORMAL]

\* toggle_pencil without the test is_filled
toggle_pencil_any(cells, sq) ==
    [cells EXCEPT !.status[sq] =
        IF cells.status[sq] = PENCILLED_IN THEN NORMAL ELSE PENCILLED_IN]

\* Square.toggle_pencil
toggle_pencil(cells, sq) ==
    IF cells.guess[sq] # None
    THEN [cells EXCEPT !.status[sq] =
            IF cells.status[sq] = PENCILLED_IN THEN NORMAL ELSE PENCILLED_IN]
    ELSE cells

\* Square.is_right
is_right(cells, sq) == cells.guess[sq] # None /\ cells.guess[sq] = <<solution[sq]>>

\* check that marks empty squares as well
check_any(cells, sq) ==
    [cells EXCEPT !.status[sq] = IF is_right(cells, sq) THEN MARKED_RIGHT ELSE MARKED_WRONG]

\* Square.check
check(cells, sq) ==
    IF cells.guess[sq] # None
    THEN [cells EXCEPT !.status[sq] =
            IF is_right(cells, sq) THEN MARKED_RIGHT ELSE MARKED_WRONG]
    ELSE cells

\* Square.reveal
reveal(cells, sq) ==
    [cells EXCEPT !.guess[sq] = <<solution[sq]>>, !.status[sq] = REVEALED]

\* "for square in ...: square.check()" and "...: square.reveal()"
RECURSIVE CheckAll(_, _, _)
CheckAll(cells, squares, ix) ==
    IF ix > Len(squares) THEN cells
    ELSE CheckAll(check(cells, squares[ix]), squares, ix + 1)

RECURSIVE RevealAll(_, _, _)
RevealAll(cells, squares, ix) ==
    IF ix > Len(squares) THEN cells
    ELSE RevealAll(reveal(cells, squares[ix]), squares, ix + 1)

\* a loop over the word that stops after its first square
UnsetOne(cells, squares, ix) == unset(cells, squares[ix])

\* "for square in word: square.unset()"
RECURSIVE UnsetAll(_, _, _)
UnsetAll(cells, squares, ix) ==
    IF ix > Len(squares) THEN cells
    ELSE UnsetAll(unset(cells, squares[ix]), squares, ix + 1)

\* ------------------------------------------------------------- Cursor
Cursor(sq, dir) == [square |-> sq, direction |-> dir]

\* what a Cursor method hands back: the Cursor it returns, or the exception
Return(c) == [square |-> c.square, direction |-> c.direction, raised |-> NoError]
Raise(self, exc) == [square |-> self.square, direction |-> self.direction, raised |-> exc]

\* move without the test "if square is not None": it lands on whatever the
\* grid holds one step away
MoveFromAnyEntry(self, px, py, dx, dy) ==
    LET res == get_square(px + dx, py + dy)
    IN IF res.raised # NoError THEN Return(self)
       ELSE Return(Cursor(<<px + dx, py + dy>>, self.direction))

\* move that gives up at a blocked entry instead of looking further
MoveFromNoSkip(self, px, py, dx, dy) ==
    LET res == get_square(px + dx, py + dy)
    IN IF res.raised # NoError \/ res.square = None THEN Return(self)
       ELSE Return(Cursor(res.square, self.direction))

RECURSIVE MoveFrom(_, _, _, _, _)
MoveFrom(self, px, py, dx, dy) ==
    LET res == get_square(px + dx, py + dy)
    IN IF res.raised # NoError THEN Return(self)
       ELSE IF res.square # None THEN Return(Cursor(res.square, self.direction))
       ELSE MoveFrom(self, px + dx, py + dy, sign(dx), sign(dy))

\* the number of positions the loop of move looks up with get_square
RECURSIVE MoveExamined(_, _, _, _, _)
MoveExamined(self, px, py, dx, dy) ==
    LET res == get_square(px + dx, py + dy)
    IN IF res.raised # NoError \/ res.square # None THEN 1
       ELSE 1 + MoveExamined(self, px + dx, py + dy, sign(dx), sign(dy))

move(self, dx, dy) == MoveFrom(self, self.square[1], self.square[2], dx, dy)

h(self) == move(self, -1, 0)
j(self) == move(self, 0, 1)
k(self) == move(self, 0, -1)
l(self) == move(self, 1, 0)

\* first element of a list of squares that is not None: next(filter(None, ...))
RECURSIVE FirstSquare(_, _)
FirstSquare(list, ix) ==
    IF ix > Len(list) THEN [raised |-> "StopIteration", square |-> None]
    ELSE IF list[ix] # None THEN [raised |-> NoError, square |-> list[ix]]
    ELSE FirstSquare(list, ix + 1)

Reversed(list) == [ix \in 1..Len(list) |-> list[Len(list) + 1 - ix]]

\* Puzzle.get_row / Puzzle.get_column, called with a coordinate of a square
get_row(py) == grid[py + 1]
get_column(px) == [py1 \in 1..height |-> grid[py1][px + 1]]

topmost(self)    == FirstSquare(get_column(self.square[1]), 1)
bottommost(self) == FirstSquare(Reversed(get_column(self.square[1])), 1)
leftmost(self)   == FirstSquare(get_row(self.square[2]), 1)
rightmost(self)  == FirstSquare(Reversed(get_row(self.square[2])), 1)

\* Puzzle.itersquares: the squares in row-major order
itersquares ==
    SelectSeq([ix \in 1..(width * height) |->
                  grid[((ix - 1) \div width) + 1][((ix - 1) % width) + 1]],
              LAMBDA sq : sq # None)

\* clue_number that looks at the across word only
clue_number_across_only(sq) ==
    IF is_start(sq, Direction[1]) THEN <<words[Direction[1]][sqword[sq][Direction[1]]].number>>
    ELSE None

\* Square.clue_number: <<n>>, or None when the square starts no word
clue_number(sq) ==
    IF is_start(sq, Direction[1]) THEN <<words[Direction[1]][sqword[sq][Direction[1]]].number>>
    ELSE IF is_start(sq, Direction[2]) THEN <<words[Direction[2]][sqword[sq][Direction[2]]].number>>
    ELSE None

\* "while square is not None: yield square, direction; square = square.next"
RECURSIVE WalkNext(_, _)
WalkNext(sq, dir) ==
    IF sq = None THEN <<>> ELSE <<<<sq, dir>>>> \o WalkNext(sqnext[sq][dir], dir)

RECURSIVE WalkPrev(_, _)
WalkPrev(sq, dir) ==
    IF sq = None THEN <<>> ELSE <<<<sq, dir>>>> \o WalkPrev(sqprev[sq][dir], dir)

\* "while square is not start: assert square is not None; yield ...": the
\* pairs yielded and the exception that ends them, if any
RECURSIVE WalkNextUntil(_, _, _)
WalkNextUntil(sq, dir, start) ==
    IF sq = start THEN [pairs |-> <<>>, raised |-> NoError]
    ELSE IF sq = None THEN [pairs |-> <<>>, raised |-> "AssertionError"]
    ELSE LET rest == WalkNextUntil(sqnext[sq][dir], dir, start)
         IN [pairs |-> <<<<sq, dir>>>> \o rest.pairs, raised |-> rest.raised]

RECURSIVE WalkPrevUntil(_, _, _)
WalkPrevUntil(sq, dir, start) ==
    IF sq = start THEN [pairs |-> <<>>, raised |-> NoError]
    ELSE IF sq = None THEN [pairs |-> <<>>, raised |-> "AssertionError"]
    ELSE LET rest == WalkPrevUntil(sqprev[sq][dir], dir, start)
         IN [pairs |-> <<<<sq, dir>>>> \o rest.pairs, raised |-> rest.raised]

\* next_squares that stops after the other direction, without going round to
\* the squares before the start
next_squares_no_wrap(self) ==
    LET dir    == self.direction
        phase1 == WalkNext(sqnext[self.square][dir], dir)
        first2 == first_square(other(dir))
        phase2 == WalkNext(first2.square, other(dir))
    IN IF first2.raised # NoError
       THEN [pairs |-> phase1, raised |-> first2.raised]
       ELSE [pairs |-> phase1 \o phase2, raised |-> NoError]

\* next_squares whose last loop runs to the end of the chain instead of
\* stopping at the start square
next_squares_whole_chain(self) ==
    LET dir    == self.direction
        phase1 == WalkNext(sqnext[self.square][dir], dir)
        phase2 == WalkNext(first_square(other(dir)).square, other(dir))
        phase3 == WalkNext(first_square(dir).square, dir)
    IN [pairs |-> phase1 \o phase2 \o phase3, raised |-> NoError]

\* Cursor.next_squares: the (square, direction) pairs the generator yields, in
\* order, and the exception that ends it, if any
next_squares(self) ==
    LET dir    == self.direction
        phase1 == WalkNext(sqnext[self.square][dir], dir)
        first2 == first_square(other(dir))
        phase2 == WalkNext(first2.square, other(dir))
        first3 == first_square(dir)
        phase3 == WalkNextUntil(first3.square, dir, self.square)
    IN IF first2.raised # NoError
       THEN [pairs |-> phase1, raised |-> first2.raised]
       ELSE IF first3.raised # NoError
       THEN [pairs |-> phase1 \o phase2, raised |-> first3.raised]
       ELSE [pairs |-> phase1 \o phase2 \o phase3.pairs, raised |-> phase3.raised]

\* prev_squares that enters the other direction at its first square, as
\* next_squares does, instead of its last
prev_squares_from_first(self) ==
    LET dir    == self.direction
        phase1 == WalkPrev(sqprev[self.square][dir], dir)
        last2  == first_square(other(dir))
        phase2 == WalkPrev(last2.square, other(dir))
        last3  == last_square(dir)
        phase3 == WalkPrevUntil(last3.square, dir, self.square)
    IN IF last2.raised # NoError
       THEN [pairs |-> phase1, raised |-> last2.raised]
       ELSE IF last3.raised # NoError
       THEN [pairs |-> phase1 \o phase2, raised |-> last3.raised]
       ELSE [pairs |-> phase1 \o phase2 \o phase3.pairs, raised |-> phase3.raised]

\* Cursor.prev_squares
prev_squares(self) ==
    LET dir    == self.direction
        phase1 == WalkPrev(sqprev[self.square][dir], dir)
        last2  == last_square(other(dir))
        phase2 == WalkPrev(last2.square, other(dir))
        last3  == last_square(dir)
        phase3 == WalkPrevUntil(last3.square, dir, self.square)
    IN IF last2.raised # NoError
       THEN [pairs |-> phase1, raised |-> last2.raised]
       ELSE IF last3.raised # NoError
       THEN [pairs |-> phase1 \o phase2, raised |-> last3.raised]
       ELSE [pairs |-> phase1 \o phase2 \o phase3.pairs, raised |-> phase3.raised]

\* "for square, direction in pairs: if condition(...): return Cursor(...)" and
\* "return self" after the loop; the generator's exception, if it is reached
\* a condition is the set of the (square, direction) pairs it accepts
RECURSIVE GoToFrom(_, _, _, _)
GoToFrom(self, gen, condition, ix) ==
    IF ix > Len(gen.pairs)
    THEN IF gen.raised # NoError THEN Raise(self, gen.raised) ELSE Return(self)
    ELSE IF gen.pairs[ix] \in condition
    THEN Return(Cursor(gen.pairs[ix][1], gen.pairs[ix][2]))
    ELSE GoToFrom(self, gen, condition, ix + 1)

GoTo(self, gen, condition) == GoToFrom(self, gen, condition, 1)

go_to_next_square(self, condition) == GoTo(self, next_squares(self), condition)
go_to_prev_square(self, condition) == GoTo(self, prev_squares(self), condition)

\* condition is None
Always == Squares \X Directions

\* a Cursor on the square a helper found, or the helper's exception
OnSquare(self, found) ==
    IF found.raised # NoError THEN Raise(self, found.raised)
    ELSE Return(Cursor(found.square, self.direction))

\* gg that goes to the first square of the first word of the direction
gg_first_square(self) == OnSquare(self, first_square(self.direction))

gg(self) == OnSquare(self, IF self.direction = ACROSS THEN topmost(self) ELSE leftmost(self))

\* G that raises when no square has the number
G_raises(self, count) ==
    IF count = None
    THEN OnSquare(self, IF self.direction = ACROSS THEN bottommost(self) ELSE rightmost(self))
    ELSE LET all  == itersquares
             hits == {ix \in 1..Len(all) : clue_number(all[ix]) = count}
         IN IF hits # {}
            THEN Return(Cursor(all[CHOOSE n \in hits : \A m \in hits : n <= m],
                               self.direction))
            ELSE Raise(self, "StopIteration")

\* G that takes the count for a place in the list of the direction's words
G_by_index(self, count) ==
    IF count = None
    THEN OnSquare(self, IF self.direction = ACROSS THEN bottommost(self) ELSE rightmost(self))
    ELSE IF count[1] \in 1..Len(words[self.direction])
    THEN Return(Cursor(words[self.direction][count[1]].squares[1], self.direction))
    ELSE Return(self)

\* count is None or <<n>>
G(self, count) ==
    IF count = None
    THEN OnSquare(self, IF self.direction = ACROSS THEN bottommost(self) ELSE rightmost(self))
    ELSE LET all  == itersquares
             hits == {ix \in 1..Len(all) : clue_number(all[ix]) = count}
         IN IF hits # {}
            THEN Return(Cursor(all[CHOOSE n \in hits : \A m \in hits : n <= m],
                               self.direction))
            ELSE Return(self)

\* zero that stops at the start of the cursor's run
zero_in_run(self) ==
    Return(Cursor(words[self.direction][sqword[self.square][self.direction]].squares[1],
                  self.direction))

zero(self)   == OnSquare(self, IF self.direction = ACROSS THEN leftmost(self) ELSE topmost(self))
dollar(self) == OnSquare(self, IF self.direction = ACROSS THEN rightmost(self) ELSE bottommost(self))

\* w and e with each other's test
w_end(self)   == go_to_next_square(self, {pair \in Always : is_end(pair[1], pair[2])})
e_start(self) == go_to_next_square(self, {pair \in Always : is_start(pair[1], pair[2])})

w(self)  == go_to_next_square(self, {pair \in Always : is_start(pair[1], pair[2])})
b(self)  == go_to_prev_square(self, {pair \in Always : is_start(pair[1], pair[2])})
e(self)  == go_to_next_square(self, {pair \in Always : is_end(pair[1], pair[2])})
ge(self) == go_to_prev_square(self, {pair \in Always : is_end(pair[1], pair[2])})

is_filled(sq) == guess[sq] # None

double_right_square_bracket(self) ==
    go_to_next_square(self, {pair \in Always :
        is_filled(pair[1]) /\ (is_start(pair[1], pair[2])
                          \/ (sqprev[pair[1]][pair[2]] # None /\ guess[sqprev[pair[1]][pair[2]]] = None))})

double_left_square_bracket(self) ==
    go_to_prev_square(self, {pair \in Always :
        is_filled(pair[1]) /\ (is_end(pair[1], pair[2])
                          \/ (sqnext[pair[1]][pair[2]] # None /\ guess[sqnext[pair[1]][pair[2]]] = None))})

right_curly_bracket(self) ==
    go_to_next_square(self, {pair \in Always :
        guess[pair[1]] = None /\ (is_start(pair[1], pair[2])
                             \/ (sqprev[pair[1]][pair[2]] # None /\ is_filled(sqprev[pair[1]][pair[2]])))})

left_curly_bracket(self) ==
    go_to_prev_square(self, {pair \in Always :
        guess[pair[1]] = None /\ (is_end(pair[1], pair[2])
                             \/ (sqnext[pair[1]][pair[2]] # None /\ is_filled(sqnext[pair[1]][pair[2]])))})

\* space that steps to the next cell instead of turning
space_next(self) == go_to_next_square(self, Always)

space(self) == Return(Cursor(self.square, other(self.direction)))

\* The editing methods of Cursor hand back the Cursor (or the exception) and
\* the squares' fields as they leave them.
Edited(result, cells) ==
    [square |-> result.square, direction |-> result.direction,
     raised |-> result.raised, guess |-> cells.guess, status |-> cells.status]

r(self, char) ==
    LET done == set(Cells(guess, status), self.square, char)
    IN Edited(Return(self), done)

x(self) == Edited(Return(self), unset(Cells(guess, status), self.square))

cw(self) ==
    LET word == words[self.direction][sqword[self.square][self.direction]]
    IN Edited(Return(Cursor(word.squares[1], self.direction)),
              UnsetAll(Cells(guess, status), word.squares, 1))

dw(self) ==
    LET word == words[self.direction][sqword[self.square][self.direction]]
    IN Edited(Return(self), UnsetAll(Cells(guess, status), word.squares, 1))

tilde(self) ==
    Edited(go_to_next_square(self, Always),
           toggle_pencil(Cells(guess, status), self.square))

\* type that advances to the next run start, as w does
type_w(self, char) ==
    LET done == set(Cells(guess, status), self.square, char)
    IN IF done.raised = "ValueError"
       THEN Edited(Return(self), done)
       ELSE Edited(w(self), done)

\* Cursor.type on squares whose fields are cells
TypeIn(cells, self, char) ==
    LET done == set(cells, self.square, char)
    IN IF done.raised = "ValueError"
       THEN Edited(Return(self), done)
       ELSE Edited(go_to_next_square(self, Always), done)

type(self, char) == TypeIn(Cells(guess, status), self, char)

\* backspace that clears the square it was called on
backspace_unset_self(self) ==
    LET cur == go_to_prev_square(self, Always)
    IN IF cur.raised # NoError
       THEN Edited(cur, Cells(guess, status))
       ELSE Edited(cur, unset(Cells(guess, status), self.square))

\* Cursor.backspace on squares whose fields are cells
BackspaceIn(cells, self) ==
    LET cur == go_to_prev_square(self, Always)
    IN IF cur.raised # NoError
       THEN Edited(cur, cells)
       ELSE Edited(cur, unset(cells, cur.square))

backspace(self) == BackspaceIn(Cells(guess, status), self)

\* ------------------------------------------------------------- rendering
\* Shape
DOWN_AND_RIGHT          == "DOWN_AND_RIGHT"
DOWN_AND_HORIZONTAL     == "DOWN_AND_HORIZONTAL"
DOWN_AND_LEFT           == "DOWN_AND_LEFT"
VERTICAL_AND_RIGHT      == "VERTICAL_AND_RIGHT"
VERTICAL_AND_HORIZONTAL == "VERTICAL_AND_HORIZONTAL"
VERTICAL_AND_LEFT       == "VERTICAL_AND_LEFT"
UP_AND_RIGHT            == "UP_AND_RIGHT"
UP_AND_HORIZONTAL       == "UP_AND_HORIZONTAL"
UP_AND_LEFT             == "UP_AND_LEFT"
HORIZONTAL              == "HORIZONTAL"
VERTICAL                == "VERTICAL"
NONE                    == "NONE"

\* BOX_DRAWING_CHARS: for each shape, the boldnesses it has a character for
BOX_DRAWING_CHARS ==
    [shape \in {DOWN_AND_RIGHT, DOWN_AND_HORIZONTAL, DOWN_AND_LEFT, VERTICAL_AND_RIGHT,
                VERTICAL_AND_HORIZONTAL, VERTICAL_AND_LEFT, UP_AND_RIGHT,
                UP_AND_HORIZONTAL, UP_AND_LEFT, HORIZONTAL, VERTICAL} |->
        CASE shape = DOWN_AND_RIGHT -> {NONE, DOWN_AND_RIGHT}
          [] shape = DOWN_AND_HORIZONTAL -> {NONE, DOWN_AND_RIGHT, DOWN_AND_LEFT, HORIZONTAL}
          [] shape = DOWN_AND_LEFT -> {NONE, DOWN_AND_LEFT}
          [] shape = VERTICAL_AND_RIGHT -> {NONE, DOWN_AND_RIGHT, UP_AND_RIGHT, VERTICAL}
          [] shape = VERTICAL_AND_HORIZONTAL ->
                {NONE, DOWN_AND_RIGHT, DOWN_AND_LEFT, UP_AND_RIGHT, UP_AND_LEFT,
                 HORIZONTAL, VERTICAL}
          [] shape = VERTICAL_AND_LEFT -> {NONE, DOWN_AND_LEFT, UP_AND_LEFT, VERTICAL}
          [] shape = UP_AND_RIGHT -> {NONE, UP_AND_RIGHT}
          [] shape = UP_AND_HORIZONTAL -> {NONE, UP_AND_RIGHT, UP_AND_LEFT, HORIZONTAL}
          [] shape = UP_AND_LEFT -> {NONE, UP_AND_LEFT}
          [] shape = HORIZONTAL -> {NONE, HORIZONTAL}
          [] shape = VERTICAL -> {NONE, VERTICAL}]

\* A rendered line is a sequence of glyphs: a box-drawing character (named by
\* its shape and boldness), another character, or a terminal escape sequence.
BoxChar(shape, boldness) == <<"box", shape, boldness>>
Chr(char) == <<"chr", char>>
Esc(code) == <<"esc", code>>

\* term.bold, term.dim, term.red, term.green
bold(text)  == <<Esc("[1m")>> \o text \o <<Esc("[22m")>>
dim(text)   == <<Esc("[2m")>> \o text \o <<Esc("[22m")>>
red(text)   == <<Esc("[31m")>> \o text \o <<Esc("[39m")>>
green(text) == <<Esc("[32m")>> \o text \o <<Esc("[39m")>>

\* str(n) of a clue number, digit by digit
RECURSIVE str(_)
str(n) ==
    LET digit == Chr(<<"0", "1", "2", "3", "4", "5", "6", "7", "8", "9">>[(n % 10) + 1])
    IN IF n < 10 THEN <<digit>> ELSE str(n \div 10) \o <<digit>>

\* the characters of a guess
Glyphs(text) == IF text = "SS" THEN <<Chr("S"), Chr("S")>> ELSE <<Chr(text)>>

\* a piece of a line, or the exception raised while it was put together
Piece(glyphs) == [glyphs |-> glyphs, raised |-> NoError]
Failed(exc) == [glyphs |-> <<>>, raised |-> exc]
Join(left, right) ==
    IF left.raised # NoError THEN left
    ELSE [glyphs |-> left.glyphs \o right.glyphs, raised |-> right.raised]

\* Square.render (term has no function blue)
render(sq) ==
    LET shown == IF is_filled(sq) THEN Glyphs(guess[sq][1]) ELSE <<Chr(" ")>>
    IN IF status[sq] = REVEALED THEN Failed("AttributeError")
       ELSE Piece(<<Chr(" ")>>
                  \o (IF status[sq] = PENCILLED_IN THEN dim(shown)
                      ELSE IF status[sq] = MARKED_WRONG THEN red(shown)
                      ELSE IF status[sq] = MARKED_RIGHT THEN green(shown)
                      ELSE shown)
                  \o <<Chr(" ")>>)

\* boldness with the loop over word[1:] left out
BoldnessAtCorners(cur, vx, vy) ==
    LET word  == words[cur.direction][sqword[cur.square][cur.direction]].squares
        first == word[1]
        last  == word[Len(word)]
        at    == <<vx, vy>>
    IN IF at = first THEN DOWN_AND_RIGHT
       ELSE IF at = <<last[1] + 1, last[2] + 1>> THEN UP_AND_LEFT
       ELSE IF cur.direction = ACROSS
       THEN (IF at = <<last[1] + 1, last[2]>> THEN DOWN_AND_LEFT
             ELSE IF at = <<first[1], first[2] + 1>> THEN UP_AND_RIGHT ELSE NONE)
       ELSE (IF at = <<last[1], last[2] + 1>> THEN UP_AND_RIGHT
             ELSE IF at = <<first[1] + 1, first[2]>> THEN DOWN_AND_LEFT ELSE NONE)

\* render_grid: boldness.get((vx, vy), Shape.NONE) for the word of the cursor
BoldnessAt(cur, vx, vy) ==
    LET word  == words[cur.direction][sqword[cur.square][cur.direction]].squares
        first == word[1]
        last  == word[Len(word)]
        at    == <<vx, vy>>
    IN IF cur.direction = ACROSS
       THEN IF at = <<last[1] + 1, last[2] + 1>> THEN UP_AND_LEFT
            ELSE IF at = <<last[1] + 1, last[2]>> THEN DOWN_AND_LEFT
            ELSE IF \E kk \in 2..Len(word) : at \in {word[kk], <<word[kk][1], word[kk][2] + 1>>}
            THEN HORIZONTAL
            ELSE IF at = <<first[1], first[2] + 1>> THEN UP_AND_RIGHT
            ELSE IF at = first THEN DOWN_AND_RIGHT
            ELSE NONE
       ELSE IF at = <<last[1] + 1, last[2] + 1>> THEN UP_AND_LEFT
            ELSE IF at = <<last[1], last[2] + 1>> THEN UP_AND_RIGHT
            ELSE IF \E kk \in 2..Len(word) : at \in {word[kk], <<word[kk][1] + 1, word[kk][2]>>}
            THEN VERTICAL
            ELSE IF at = <<first[1] + 1, first[2]>> THEN DOWN_AND_LEFT
            ELSE IF at = first THEN DOWN_AND_RIGHT
            ELSE NONE

\* render_grid: vertex_shape
VertexShape(vx, vy) ==
    IF vx = 0
    THEN (IF vy = 0 THEN DOWN_AND_RIGHT
          ELSE IF vy < height THEN VERTICAL_AND_RIGHT ELSE UP_AND_RIGHT)
    ELSE IF vx < width
    THEN (IF vy = 0 THEN DOWN_AND_HORIZONTAL
          ELSE IF vy < height THEN VERTICAL_AND_HORIZONTAL ELSE UP_AND_HORIZONTAL)
    ELSE (IF vy = 0 THEN DOWN_AND_LEFT
          ELSE IF vy < height THEN VERTICAL_AND_LEFT ELSE UP_AND_LEFT)

\* BOX_DRAWING_CHARS[shape][boldness]
BoxLookup(shape, boldness) ==
    IF boldness \in BOX_DRAWING_CHARS[shape]
    THEN Piece(<<BoxChar(shape, boldness)>>)
    ELSE Failed("KeyError")

Repeat(glyph, n) == [ix \in 1..n |-> glyph]

\* render_grid: the vertex at (vx, vy) and, left of the last column, the clue
\* number and the horizontal edge after it.  Below the last row the loop does
\* not look a square up: square is still the last one the row above looked up.
VertexPiece(cur, vx, vy) ==
    LET vertex_boldness == BoldnessAt(cur, vx, vy)
        word   == words[cur.direction][sqword[cur.square][cur.direction]].squares
        square == IF vy < height THEN get_square(vx, vy).square
                  ELSE get_square(width - 1, height - 1).square
        number == IF vy < height /\ square # None THEN clue_number(square) ELSE None
        clue_number_string == IF number = None THEN <<>> ELSE str(number[1])
        horizontal_edge ==
            Repeat(BoxChar(HORIZONTAL,
                           IF vertex_boldness \in {DOWN_AND_RIGHT, UP_AND_RIGHT, HORIZONTAL}
                           THEN HORIZONTAL ELSE NONE),
                   3 - Len(clue_number_string))
    IN IF vx < width
       THEN Join(BoxLookup(VertexShape(vx, vy), vertex_boldness),
                 Piece((IF square = word[1] THEN bold(clue_number_string)
                                            ELSE clue_number_string)
                       \o horizontal_edge))
       ELSE BoxLookup(VertexShape(vx, vy), vertex_boldness)

\* a content row that shows the cursor's square in bold when the cursor
\* points down
ContentPieceMarksCursor(cur, vx, vy) ==
    IF vx < width
    THEN Join(Piece(<<BoxChar(VERTICAL, NONE)>>),
              IF get_square(vx, vy).square = None
              THEN Piece(Repeat(Chr("shade"), 3))
              ELSE IF cur.direction = DOWN /\ cur.square = <<vx, vy>>
              THEN Piece(bold(render(get_square(vx, vy).square).glyphs))
              ELSE render(get_square(vx, vy).square))
    ELSE Piece(<<BoxChar(VERTICAL, NONE)>>)

\* render_grid: the vertical edge at vx and, left of the last column, the
\* square behind it
ContentPiece(cur, vx, vy) ==
    LET vertex_boldness == BoldnessAt(cur, vx, vy)
        vertical_edge ==
            BoxChar(VERTICAL,
                    IF vertex_boldness \in {DOWN_AND_RIGHT, DOWN_AND_LEFT, VERTICAL}
                    THEN VERTICAL ELSE NONE)
    IN IF vx < width
       THEN Join(Piece(<<vertical_edge>>),
                 IF get_square(vx, vy).square = None
                 THEN Piece(Repeat(Chr("shade"), 3))
                 ELSE render(get_square(vx, vy).square))
       ELSE Piece(<<vertical_edge>>)

\* "for x in range(self.width + 1)" of a vertex row and of a content row
RECURSIVE VertexRow(_, _, _)
VertexRow(cur, vy, vx) ==
    IF vx > width THEN Piece(<<>>)
    ELSE Join(VertexPiece(cur, vx, vy), VertexRow(cur, vy, vx + 1))

RECURSIVE ContentRow(_, _, _)
ContentRow(cur, vy, vx) ==
    IF vx > width THEN Piece(<<>>)
    ELSE Join(ContentPiece(cur, vx, vy), ContentRow(cur, vy, vx + 1))

\* the lines render_grid has yielded when it is done, from the n-th on
\* (vertex rows at even n, content rows at odd n) after those before it, and
\* the exception that ends the generator
RECURSIVE RenderFrom(_, _, _)
RenderFrom(cur, n, lines) ==
    IF n > 2 * height THEN [lines |-> lines, raised |-> NoError]
    ELSE LET row == IF n % 2 = 0 THEN VertexRow(cur, n \div 2, 0)
                    ELSE ContentRow(cur, n \div 2, 0)
         IN IF row.raised # NoError THEN [lines |-> lines, raised |-> row.raised]
            ELSE RenderFrom(cur, n + 1, Append(lines, row.glyphs))

\* Puzzle.render_grid
render_grid(cur) == RenderFrom(cur, 0, <<>>)

\* ------------------------------------------------------------- actions
\* The driver calls a Cursor method on its cursor and keeps the result
\* (self.cursor = self.cursor.m()); an exception leaves the cursor as it was.
Call(op, arg, result) ==
    /\ lastOp' = op
    /\ lastArg' = arg
    /\ from' = cursor
    /\ raised' = result.raised
    /\ cursor' = IF result.raised = NoError
                 THEN Cursor(result.square, result.direction)
                 ELSE cursor

Motion(op, arg, result) ==
    /\ Call(op, arg, result)
    /\ UNCHANGED <<guess, status, edits, returned>>
    /\ UNCHANGED <<puzzleVars, gameVars>>

\* the counts a driver passes to G: 0, every clue number of the puzzle and one
\* more, which no word has
Counts ==
    LET numbers == {words[ACROSS][ix].number : ix \in 1..Len(words[ACROSS])}
                   \cup {words[DOWN][ix].number : ix \in 1..Len(words[DOWN])}
    IN 0..(Cardinality(numbers) + 1)

H == Motion("h", None, h(cursor))
J == Motion("j", None, j(cursor))
K == Motion("k", None, k(cursor))
L == Motion("l", None, l(cursor))
W == Motion("w", None, w(cursor))
B == Motion("b", None, b(cursor))
E == Motion("e", None, e(cursor))
GE == Motion("ge", None, ge(cursor))
GG == Motion("gg", None, gg(cursor))
GNone == Motion("G", None, G(cursor, None))
GCount == \E count \in Counts : Motion("G", <<count>>, G(cursor, <<count>>))
\* the command ":n": Game.handle_command calls G(int(command))
Command == \E count \in Counts : Motion(":", <<count>>, G(cursor, <<count>>))
Zero == Motion("zero", None, zero(cursor))
Dollar == Motion("dollar", None, dollar(cursor))
Space == Motion("space", None, space(cursor))
GoToNextSquare == Motion("go_to_next_square", None, go_to_next_square(cursor, Always))
GoToPrevSquare == Motion("go_to_prev_square", None, go_to_prev_square(cursor, Always))
RightSquare == Motion("]]", None, double_right_square_bracket(cursor))
LeftSquare == Motion("[[", None, double_left_square_bracket(cursor))
RightCurly == Motion("}", None, right_curly_bracket(cursor))
LeftCurly == Motion("{", None, left_curly_bracket(cursor))

Edit(op, arg, result) ==
    /\ edits < MaxEdits
    /\ edits' = edits + 1
    /\ Call(op, arg, result)
    /\ guess' = result.guess
    /\ status' = result.status
    /\ UNCHANGED returned
    /\ UNCHANGED <<puzzleVars, gameVars>>

R == \E char \in Chars : Edit("r", <<char>>, r(cursor, char))
X == Edit("x", None, x(cursor))
CW == Edit("cw", None, cw(cursor))
DW == Edit("dw", None, dw(cursor))
Tilde == Edit("tilde", None, tilde(cursor))
Type == \E char \in Chars : Edit("type", <<char>>, type(cursor, char))
Backspace == Edit("backspace", None, backspace(cursor))

\* the keys of insert mode: the characters above and sharp s
Keys == Chars \cup {"sharp s"}
TypeKey == \E char \in Keys : Edit("type", <<char>>, type(cursor, char))

\* Game.render calls render_grid with the cursor and writes the lines it gets
RenderGrid ==
    /\ lastOp' = "render_grid"
    /\ lastArg' = None
    /\ from' = cursor
    /\ \E res \in {render_grid(cursor)} :
            /\ raised' = res.raised
            /\ returned' = res.lines
    /\ UNCHANGED <<guess, status, cursor, edits>>
    /\ UNCHANGED <<puzzleVars, gameVars>>

\* a direct call of Square.set on the cursor's square; the cursor stays
SquareSet ==
    \E char \in Chars :
        LET done == set(Cells(guess, status), cursor.square, char)
        IN /\ edits < MaxEdits
           /\ edits' = edits + 1
           /\ lastOp' = "set"
           /\ lastArg' = <<char>>
           /\ from' = cursor
           /\ raised' = done.raised
           /\ guess' = done.guess
           /\ status' = done.status
           /\ UNCHANGED <<cursor, returned>>
           /\ UNCHANGED <<puzzleVars, gameVars>>

\* the alphanumeric characters Square.set is called with: the keys of
\* insert mode that it accepts and a digit
SetChars == {char \in Keys : isalnum(char)} \cup {"1"}

\* the number of sets, toggles, checks and reveals that are followed
MaxMarks == 3

\* a call that changes squares, leaves the cursor alone and returns None
Mark(op, arg, done) ==
    /\ edits < MaxMarks
    /\ edits' = edits + 1
    /\ lastOp' = op
    /\ lastArg' = arg
    /\ from' = cursor
    /\ raised' = done.raised
    /\ guess' = done.guess
    /\ status' = done.status
    /\ returned' = None
    /\ UNCHANGED cursor
    /\ UNCHANGED <<puzzleVars, gameVars>>

SetKey == \E char \in SetChars : Mark("set", <<char>>, set(Cells(guess, status), cursor.square, char))
Unset == Mark("unset", None, unset(Cells(guess, status), cursor.square))
TogglePencil == Mark("toggle_pencil", None, toggle_pencil(Cells(guess, status), cursor.square))

\* the key "~" of normal mode, counted with the calls above
PressTilde ==
    /\ edits < MaxMarks
    /\ edits' = edits + 1
    /\ Call("tilde", None, tilde(cursor))
    /\ guess' = tilde(cursor).guess
    /\ status' = tilde(cursor).status
    /\ returned' = None
    /\ UNCHANGED <<puzzleVars, gameVars>>

\* the keys "x", "cw" and "dw" of normal mode, counted in the same way
Press(op, result) ==
    /\ edits < MaxMarks
    /\ edits' = edits + 1
    /\ Call(op, None, result)
    /\ guess' = result.guess
    /\ status' = result.status
    /\ returned' = None
    /\ UNCHANGED <<puzzleVars, gameVars>>

PressX == Press("x", x(cursor))
PressCW == Press("cw", cw(cursor))
PressDW == Press("dw", dw(cursor))

\* handle_command: the commands that check and that reveal
CheckSquare == Mark(":cs", None, check(Cells(guess, status), cursor.square))
CheckWord ==
    Mark(":cw", None,
         CheckAll(Cells(guess, status),
                  words[cursor.direction][sqword[cursor.square][cursor.direction]].squares, 1))
CheckPuzzle == Mark(":cp", None, CheckAll(Cells(guess, status), itersquares, 1))
RevealSquare == Mark(":rs", None, reveal(Cells(guess, status), cursor.square))
RevealWord ==
    Mark(":rw", None,
         RevealAll(Cells(guess, status),
                   words[cursor.direction][sqword[cursor.square][cursor.direction]].squares, 1))
RevealPuzzle == Mark(":rp", None, RevealAll(Cells(guess, status), itersquares, 1))

\* ------------------------------------------------------------- specification
\* Game.__init__: the Puzzle of the data read, the cursor on the first square
\* of the first across word, every square empty.
InitFor(cols, rows, blocked) ==
    LET pz == Puzzle(SolutionString(cols, rows, blocked), cols, rows)
        squares == SquaresOf(pz.grid)
    IN /\ width = pz.width
       /\ height = pz.height
       /\ grid = pz.grid
       /\ solution = pz.solution
       /\ words = pz.words
       /\ sqprev = pz.prev
       /\ sqnext = pz.next
       /\ sqword = pz.word
       /\ guess = [sq \in squares |-> None]
       /\ status = [sq \in squares |-> NORMAL]
       /\ cursor = Cursor(pz.words[ACROSS][1].squares[1], ACROSS)
       /\ lastOp = "init"
       /\ lastArg = None
       /\ from = Cursor(pz.words[ACROSS][1].squares[1], ACROSS)
       /\ raised = NoError
       /\ edits = 0
       /\ returned = None
       /\ mode = MODE_NORMAL
       /\ message = None

Init ==
    \E cols \in 1..MaxWidth, rows \in 1..MaxHeight :
        \E blocked \in SUBSET (0..(cols * rows - 1)) :
            /\ cols * rows <= MaxCells
            /\ Cardinality(blocked) <= MaxBlocked
            /\ Cardinality(blocked) < cols * rows
            /\ InitFor(cols, rows, blocked)

\* the motions
\* the motions bound to keys of normal mode
KeyMotions ==
    \/ H
    \/ J
    \/ K
    \/ L
    \/ W
    \/ B
    \/ E
    \/ GE
    \/ GG
    \/ GNone
    \/ GCount
    \/ Zero
    \/ Dollar
    \/ Space
    \/ RightSquare
    \/ LeftSquare
    \/ RightCurly
    \/ LeftCurly
    \/ GoToNextSquare
    \/ GoToPrevSquare

\* the keys and the ":" command line
Next == KeyMotions \/ Command

Spec == Init /\ [][Next]_vars

\* the motions and the edits, on small grids
EditInit ==
    \E cols \in 1..MaxEditCells, rows \in 1..MaxEditCells :
        \E blocked \in SUBSET (0..(cols * rows - 1)) :
            /\ cols * rows <= MaxEditCells
            /\ Cardinality(blocked) <= MaxBlocked
            /\ Cardinality(blocked) < cols * rows
            /\ InitFor(cols, rows, blocked)

EditNext ==
    \/ KeyMotions
    \/ R
    \/ X
    \/ CW
    \/ DW
    \/ Tilde
    \/ Type
    \/ Backspace
    \/ SquareSet

EditSpec == EditInit /\ [][EditNext]_vars

\* insert mode with the keys that move by one cell, turn and pencil
TypingNext ==
    \/ H
    \/ J
    \/ K
    \/ L
    \/ Space
    \/ Tilde
    \/ Type
    \/ Backspace

TypingSpec == EditInit /\ [][TypingNext]_vars

\* ------------------------------------------------------------- rendering
\* the largest grid (in entries) that is rendered
MaxRenderCells == 4

RenderInit ==
    \E cols \in 1..MaxRenderCells, rows \in 1..MaxRenderCells :
        \E blocked \in SUBSET (0..(cols * rows - 1)) :
            /\ cols * rows <= MaxRenderCells
            /\ Cardinality(blocked) <= MaxBlocked
            /\ Cardinality(blocked) < cols * rows
            /\ InitFor(cols, rows, blocked)

\* typing, pencilling, turning and rendering
RenderNext == TypeKey \/ Tilde \/ Space \/ RenderGrid

RenderSpec == RenderInit /\ [][RenderNext]_vars

\* rendering wherever the cursor can be put, on the grids of Init
BorderNext == H \/ J \/ K \/ L \/ Space \/ RenderGrid

BorderSpec == Init /\ [][BorderNext]_vars

\* ------------------------------------------------------------- the game loop
\* the messages of show_message
INSERT_MESSAGE == "-- INSERT --"
CONGRATS == "Congrats! You've finished the puzzle."
AMISS == "At least one square's amiss."
SMILE == ":-)"

\* what one call of handle_input leaves: the cursor, the squares, the mode and
\* the message
Outcome(res, md, msg) ==
    [square |-> res.square, direction |-> res.direction,
     guess |-> res.guess, status |-> res.status, mode |-> md, message |-> msg]

\* a Cursor method that changes no square
Moved(res) == Edited(res, Cells(guess, status))

\* Game.i after the cursor and the squares are as in res; Game.escape
InsertAfter(res) == Outcome(res, MODE_INSERT, INSERT_MESSAGE)
escape == Outcome(Moved(Return(cursor)), MODE_NORMAL, None)

\* Game.handle_command after read_command, which clears the message
handle_command(command) ==
    IF command = "cs"
    THEN Outcome(Edited(Return(cursor), check(Cells(guess, status), cursor.square)), mode, None)
    ELSE IF command = "smile"
    THEN Outcome(Moved(Return(cursor)), mode, SMILE)
    ELSE Outcome(Moved(Return(cursor)), mode, None)

\* the branch "elif char == 'j'" of insert mode when the next key is not k:
\* type(char), then type(next_char)
TypeBoth(char, next_char) ==
    LET first == TypeIn(Cells(guess, status), cursor, char)
    IN TypeIn(Cells(first.guess, first.status), Cursor(first.square, first.direction), next_char)

\* Game.handle_input with the keys it reads, one or two
handle_input(keys) ==
    LET char == keys[1]
        same == Outcome(Moved(Return(cursor)), mode, message)
    IN IF mode = MODE_NORMAL
       THEN CASE char = "l" -> Outcome(Moved(l(cursor)), mode, message)
              [] char = " " -> Outcome(Moved(space(cursor)), mode, message)
              [] char = "r" -> Outcome(r(cursor, keys[2]), mode, message)
              [] char = "x" -> Outcome(x(cursor), mode, message)
              [] char = "c" -> InsertAfter(IF keys[2] = "w" THEN cw(cursor)
                                           ELSE Moved(Return(cursor)))
              [] char = "d" -> IF keys[2] = "w" THEN Outcome(dw(cursor), mode, message)
                               ELSE same
              [] char = "~" -> Outcome(tilde(cursor), mode, message)
              [] char = ":" -> handle_command(keys[2])
              [] char = "i" -> InsertAfter(Moved(Return(cursor)))
              [] char = "a" -> InsertAfter(Moved(go_to_next_square(cursor, Always)))
              [] char = "s" -> InsertAfter(x(cursor))
              [] OTHER -> same
       ELSE CASE char = "esc" -> escape
              [] char = "del" -> Outcome(backspace(cursor), mode, message)
              [] char = "j" -> IF keys[2] = "k" THEN escape
                               ELSE Outcome(TypeBoth(char, keys[2]), mode, message)
              [] OTHER -> Outcome(type(cursor, char), mode, message)

\* Game.congratulate on what handle_input left: the message afterwards
congratulate(out) ==
    IF out.mode = MODE_NORMAL /\ \A sq \in Squares : out.guess[sq] # None
    THEN IF \A sq \in Squares : is_right(Cells(out.guess, out.status), sq)
         THEN CONGRATS
         ELSE AMISS
    ELSE out.message

\* the keys handle_input reads in one call: those with a branch of their own
\* in either mode, a letter of each case, and Escape
NormalKeys ==
    {<<"l">>, <<" ">>, <<"x">>, <<"~">>, <<"i">>, <<"a">>, <<"s">>, <<"esc">>,
     <<"r", "a">>, <<"r", "B">>, <<"c", "w">>, <<"c", "l">>, <<"d", "w">>, <<"d", "l">>,
     <<":", "cs">>, <<":", "smile">>}
InsertKeys ==
    {<<"esc">>, <<"del">>, <<"a">>, <<"B">>, <<"j", "k">>, <<"j", "a">>, <<"j", "esc">>}

\* one turn of the loop of Game.run: render (which changes nothing of the
\* game), handle_input, congratulate
GameLoop ==
    \E keys \in (IF mode = MODE_NORMAL THEN NormalKeys ELSE InsertKeys) :
        \E out \in {handle_input(keys)} :
            /\ lastOp' = "handle_input"
            /\ lastArg' = keys
            /\ from' = cursor
            /\ raised' = NoError
            /\ cursor' = Cursor(out.square, out.direction)
            /\ guess' = out.guess
            /\ status' = out.status
            /\ mode' = out.mode
            /\ message' = congratulate(out)
            /\ UNCHANGED <<edits, returned>>
            /\ UNCHANGED puzzleVars


\* the motions that step by one cell and those that scan the chains
ScanNext ==
    \/ H
    \/ J
    \/ K
    \/ L
    \/ Space
    \/ GoToNextSquare
    \/ GoToPrevSquare
    \/ RightSquare
    \/ LeftSquare

ScanSpec == Init /\ [][ScanNext]_vars

\* the longest solution string and the largest width a grid is built from
MaxSolution == 5
MaxDataWidth == 3

\* the solution strings of a puzzle file, of any length up to MaxSolution
Solutions == UNION {[1..n -> {"A", "."}] : n \in 0..MaxSolution}

\* Puzzle(data) with a solution string and a width that need not fit: the
\* grid, the width and the height the constructor sets before it numbers the
\* clues, or the exception it raises
BuildPuzzleGrid ==
    \E sol \in Solutions, cols \in 1..MaxDataWidth :
        /\ lastOp' = "Puzzle"
        /\ lastArg' = <<sol, cols>>
        /\ raised' = GridOf(sol, cols).raised
        /\ returned' = GridOf(sol, cols).grid
        /\ UNCHANGED <<guess, status, cursor, from, edits>>
        /\ UNCHANGED <<puzzleVars, gameVars>>

ShapeNext == BuildPuzzleGrid

ShapeSpec == Init /\ [][ShapeNext]_vars

\* setting, pencilling, checking, revealing and rendering, with the one
\* motion that reaches every square in both directions
MarkNext ==
    \/ GoToNextSquare
    \/ SetKey
    \/ Unset
    \/ TogglePencil
    \/ PressTilde
    \/ PressX
    \/ PressCW
    \/ PressDW
    \/ CheckSquare
    \/ CheckWord
    \/ CheckPuzzle
    \/ RevealSquare
    \/ RevealWord
    \/ RevealPuzzle
    \/ RenderGrid

\* the largest grid (in entries) that is marked
MaxMarkCells == 2

MarkInit ==
    \E cols \in 1..MaxMarkCells, rows \in 1..MaxMarkCells :
        \E blocked \in SUBSET (0..(cols * rows - 1)) :
            /\ cols * rows <= MaxMarkCells
            /\ Cardinality(blocked) <= MaxBlocked
            /\ Cardinality(blocked) < cols * rows
            /\ InitFor(cols, rows, blocked)

MarkSpec == MarkInit /\ [][MarkNext]_vars

\* the game loop on the same puzzles
GameNext == GameLoop
GameSpec == MarkInit /\ [][GameNext]_vars

\* ------------------------------------------------------------- lookups
\* the coordinates beyond the grid that a caller tries, on each side
Margin == 2

\* a direct call of Puzzle.get_square, inside the grid or up to Margin
\* positions outside it
GetSquare ==
    \E px \in (0 - Margin)..(width + Margin - 1), py \in (0 - Margin)..(height + Margin - 1) :
        /\ lastOp' = "get_square"
        /\ lastArg' = <<px, py>>
        /\ raised' = get_square(px, py).raised
        /\ returned' = get_square(px, py).square
        /\ UNCHANGED <<guess, status, cursor, from, edits>>
        /\ UNCHANGED <<puzzleVars, gameVars>>

LookupNext == GetSquare

LookupSpec == Init /\ [][LookupNext]_vars


\* ------------------------------------------------------------- properties
MotionOps == {"h", "j", "k", "l", "w", "b", "e", "ge", "gg", "G", "zero", "dollar", "space"}

InBounds(px, py) == 0 <= px /\ px < width /\ 0 <= py /\ py < height

\* C1: after any sequence of Cursor methods (motions and edits) the cursor's
\* square is an in-bounds, non-blocked entry of the puzzle's grid, and its
\* direction is one of the two directions.
C1_CursorOnSquare ==
    /\ Len(cursor.square) = 2
    /\ InBounds(cursor.square[1], cursor.square[2])
    /\ grid[cursor.square[2] + 1][cursor.square[1] + 1] = cursor.square
    /\ solution[cursor.square] # "."
    /\ cursor.direction \in Directions

\* a step to the right has passed a blocked entry, after an edit
C1_Witness ==
    /\ lastOp = "l"
    /\ edits > 0
    /\ cursor.square[1] > from.square[1] + 1
    /\ grid[from.square[2] + 1][from.square[1] + 2] = None

\* the squares strictly beyond square sq in the direction (dx, dy) of a unit step
Beyond(sq, dx, dy) ==
    {to \in Squares : \E n \in 1..(width + height) :
        to = <<sq[1] + n * dx, sq[2] + n * dy>>}

Distance(sq, to) ==
    (IF to[1] > sq[1] THEN to[1] - sq[1] ELSE sq[1] - to[1])
    + (IF to[2] > sq[2] THEN to[2] - sq[2] ELSE sq[2] - to[2])

Nearest(sq, targets) ==
    CHOOSE to \in targets : \A t2 \in targets : Distance(sq, to) <= Distance(sq, t2)

StepOf(op) ==
    IF op = "h" THEN <<-1, 0>>
    ELSE IF op = "j" THEN <<0, 1>>
    ELSE IF op = "k" THEN <<0, -1>>
    ELSE <<1, 0>>

\* the squares a motion may go to, by what the motion is for
Targets(op, arg, cur) ==
    IF op \in {"h", "j", "k", "l"}
    THEN Beyond(cur.square, StepOf(op)[1], StepOf(op)[2])
    ELSE IF op = "G" /\ arg # None
    THEN {sq \in Squares :
            \E dir \in Directions :
                /\ words[dir][sqword[sq][dir]].squares[1] = sq
                /\ <<words[dir][sqword[sq][dir]].number>> = arg}
    ELSE Squares

\* C2: no motion raises, and a motion that has no valid target returns a
\* cursor with the cell and direction it was called on.
C2_MotionsNeverRaise ==
    lastOp \in MotionOps =>
        /\ raised = NoError
        /\ cursor.square \in Squares
        /\ Targets(lastOp, lastArg, from) = {} => cursor = from

\* G was given a number no word has, away from the first square
C2_Witness ==
    /\ lastOp = "G"
    /\ lastArg # None
    /\ Targets(lastOp, lastArg, from) = {}
    /\ from.square # first_square(ACROSS).square
    /\ cursor = from

\* C3: h, j, k, l land on the nearest non-blocked cell strictly beyond the
\* current one in the same row (h, l) or column (j, k), whatever blocked
\* cells lie between, and keep the direction; with no such cell the cursor is
\* returned unchanged.
C3_UnitStep ==
    lastOp \in {"h", "j", "k", "l"} =>
        LET beyond == Beyond(from.square, StepOf(lastOp)[1], StepOf(lastOp)[2])
        IN IF beyond = {}
           THEN cursor = from
           ELSE cursor = Cursor(Nearest(from.square, beyond), from.direction)

\* a step up has passed a blocked entry
C3_Witness ==
    /\ lastOp = "k"
    /\ cursor.square[2] < from.square[2] - 1
    /\ grid[from.square[2]][from.square[1] + 1] = None
    /\ cursor.direction = from.direction


Occurrences(list, val) == Cardinality({ix \in 1..Len(list) : list[ix] = val})

CellOccurrences(pairs, sq) == Cardinality({ix \in 1..Len(pairs) : pairs[ix][1] = sq})

\* C4 as stated: the traversal from the cursor (forward, and backward)
\* enumerates every cell of the grid exactly once.
C4_EveryCellOnce ==
    \A sq \in Squares :
        /\ CellOccurrences(next_squares(cursor).pairs, sq) = 1
        /\ CellOccurrences(prev_squares(cursor).pairs, sq) = 1

\* C4, amended: the traversal from the cursor (forward, and backward)
\* enumerates every (cell, direction) pair other than the cursor's own exactly
\* once and the cursor's own pair never, and ends without an exception: every
\* cell but the cursor's comes twice, once per direction, and the cursor's
\* cell once, in the other direction.
C4_EveryPairOnce ==
    LET forward  == next_squares(cursor)
        backward == prev_squares(cursor)
        own      == <<cursor.square, cursor.direction>>
    IN /\ forward.raised = NoError
       /\ backward.raised = NoError
       /\ \A sq \in Squares, dir \in Directions :
            /\ Occurrences(forward.pairs, <<sq, dir>>) = (IF <<sq, dir>> = own THEN 0 ELSE 1)
            /\ Occurrences(backward.pairs, <<sq, dir>>) = (IF <<sq, dir>> = own THEN 0 ELSE 1)
       /\ \A sq \in Squares :
            CellOccurrences(forward.pairs, sq) = (IF sq = cursor.square THEN 1 ELSE 2)

\* a jump has brought the cursor inside a chain, so that the traversal from it
\* has all three phases
C4_Witness ==
    /\ lastOp \in {"w", "e", "go_to_next_square"}
    /\ sqnext[cursor.square][cursor.direction] # None
    /\ sqprev[cursor.square][cursor.direction] # None
    /\ Len(next_squares(cursor).pairs) > Cardinality(Squares)

RECURSIVE NextTimes(_, _)
NextTimes(cur, n) ==
    IF n = 0 \/ cur.raised # NoError THEN cur
    ELSE NextTimes(go_to_next_square(Cursor(cur.square, cur.direction), Always), n - 1)

RECURSIVE PrevTimes(_, _)
PrevTimes(cur, n) ==
    IF n = 0 \/ cur.raised # NoError THEN cur
    ELSE PrevTimes(go_to_prev_square(Cursor(cur.square, cur.direction), Always), n - 1)

\* C5: go_to_next_square() applied n times and then go_to_prev_square()
\* applied n times gives back the cursor's cell and direction, for every n up
\* to a whole cycle of the traversal (twice the number of cells).
C5_NextPrevInverse ==
    \A n \in 0..(2 * Cardinality(Squares)) :
        PrevTimes(NextTimes(Return(cursor), n), n) = Return(cursor)

\* the step back has wrapped from one direction into the other, and undoes
\* the step forward
C5_Witness ==
    /\ lastOp = "go_to_prev_square"
    /\ cursor.direction # from.direction
    /\ cursor.square # from.square
    /\ go_to_next_square(cursor, Always) = Return(from)

\* C6: from a cursor on the first cell of its run in the active direction,
\* b followed by w returns to that cell with that direction.
C6_BackThenForward ==
    is_start(cursor.square, cursor.direction) =>
        LET back == b(cursor)
        IN /\ back.raised = NoError
           /\ w(Cursor(back.square, back.direction)) = Return(cursor)

\* w has just come back to the start of the first run of a direction from the
\* place b leads to, in the other direction
C6_Witness ==
    /\ lastOp = "w"
    /\ is_start(cursor.square, cursor.direction)
    /\ b(cursor) = Return(from)
    /\ from.direction # cursor.direction
    /\ from.square # cursor.square

WordAt(cur) == words[cur.direction][sqword[cur.square][cur.direction]]
FirstOf(word) == word.squares[1]
LastOf(word) == word.squares[Len(word.squares)]

\* where w, b, e and ge lead from a cursor, in terms of the runs and their links
Landmark(op, cur) ==
    LET dir   == cur.direction
        od    == other(dir)
        run   == WordAt(cur)
        after == IF run.next # 0 THEN <<words[dir][run.next], dir>>
                 ELSE <<words[od][1], od>>
        before == IF run.prev # 0 THEN <<words[dir][run.prev], dir>>
                  ELSE <<words[od][Len(words[od])], od>>
    IN IF op = "w" THEN Cursor(FirstOf(after[1]), after[2])
       ELSE IF op = "e"
       THEN IF cur.square # LastOf(run) THEN Cursor(LastOf(run), dir)
            ELSE Cursor(LastOf(after[1]), after[2])
       ELSE IF op = "b"
       THEN IF cur.square # FirstOf(run) THEN Cursor(FirstOf(run), dir)
            ELSE Cursor(FirstOf(before[1]), before[2])
       ELSE Cursor(LastOf(before[1]), before[2])

\* C7: w lands on the first cell of the next run of the direction, or, from
\* the last run, on the first cell of the first run of the other direction
\* with the direction switched; e lands on the nearest following run end, b
\* on the nearest preceding run start, ge on the nearest preceding run end,
\* wrapping likewise.  After w or b the cursor's cell starts its run in the
\* cursor's direction, after e or ge it ends it.
C7_LandmarkJumps ==
    lastOp \in {"w", "b", "e", "ge"} =>
        /\ raised = NoError
        /\ cursor = Landmark(lastOp, from)
        /\ lastOp \in {"w", "b"} => cursor.square = FirstOf(WordAt(cursor))
        /\ lastOp \in {"e", "ge"} => cursor.square = LastOf(WordAt(cursor))

\* e has gone from the end of the last run of a direction to the end of the
\* first run of the other, a run of more than one cell
C7_Witness ==
    /\ lastOp = "e"
    /\ cursor.direction # from.direction
    /\ from.square = LastOf(WordAt(from))
    /\ Len(WordAt(cursor).squares) > 1


\* the cells of a direction in run-list order, cell by cell inside each run
ChainOf(dir) == Chain(words[dir], 1)

IndexIn(list, val) == CHOOSE ix \in 1..Len(list) : list[ix] = val

\* the plain next-cell step: the next cell of the direction, or, from its last
\* cell, the first cell of the other direction with the direction switched
NextCell(cur) ==
    LET chain == ChainOf(cur.direction)
        pos   == IndexIn(chain, cur.square)
    IN IF pos < Len(chain) THEN Cursor(chain[pos + 1], cur.direction)
       ELSE Cursor(ChainOf(other(cur.direction))[1], other(cur.direction))

\* the plain prev-cell step
PrevCell(cur) ==
    LET chain  == ChainOf(cur.direction)
        pos    == IndexIn(chain, cur.square)
        ochain == ChainOf(other(cur.direction))
    IN IF pos > 1 THEN Cursor(chain[pos - 1], cur.direction)
       ELSE Cursor(ochain[Len(ochain)], other(cur.direction))

\* C8: type(c) with an alphanumeric c writes the guess of the cursor's cell
\* and of no other cell, changes no other cell's status, and returns the
\* cursor one plain next-cell step on.
C8_Type ==
    [][(lastOp' = "type" /\ isalnum(lastArg'[1])) =>
        /\ raised' = NoError
        /\ guess' = [guess EXCEPT ![cursor.square] = <<upper(lastArg'[1])>>]
        /\ \A sq \in Squares \ {cursor.square} : status'[sq] = status[sq]
        /\ cursor' = NextCell(cursor)]_vars

\* a second character was typed on the last cell of a direction holding more
\* than one run: the cursor went on to the first cell of the other direction,
\* not a run start ahead, and the first character is still there
C8_Witness ==
    /\ lastOp = "type"
    /\ isalnum(lastArg[1])
    /\ cursor.direction # from.direction
    /\ cursor.square # from.square
    /\ guess[from.square] = <<upper(lastArg[1])>>
    /\ \E sq \in Squares \ {from.square} : guess[sq] # None

\* C9: a character that is not alphanumeric changes nothing: Square.set
\* raises and leaves every guess and status, Cursor.type and Cursor.r raise
\* nothing, leave every guess and status and return the cursor they were
\* called on.
C9_InvalidInput ==
    [][(lastOp' \in {"set", "type", "r"} /\ ~isalnum(lastArg'[1])) =>
        /\ guess' = guess
        /\ status' = status
        /\ cursor' = cursor
        /\ raised' = (IF lastOp' = "set" THEN "ValueError" ELSE NoError)]_vars

\* type was given such a character on a pencilled-in cell
C9_Witness ==
    /\ lastOp = "type"
    /\ ~isalnum(lastArg[1])
    /\ guess[cursor.square] # None
    /\ status[cursor.square] = PENCILLED_IN
    /\ cursor = from

\* C10 as stated: backspace moves one plain prev-cell step, clears the cell it
\* arrives at, and leaves the cell it left and all other cells unchanged.
C10_LeavesCellItLeft ==
    [][lastOp' = "backspace" =>
        /\ cursor' = PrevCell(cursor)
        /\ guess'[cursor'.square] = None
        /\ status'[cursor'.square] = NORMAL
        /\ guess'[cursor.square] = guess[cursor.square]
        /\ status'[cursor.square] = status[cursor.square]
        /\ \A sq \in Squares \ {cursor.square, cursor'.square} :
                guess'[sq] = guess[sq] /\ status'[sq] = status[sq]]_vars

\* C10, amended: backspace moves one plain prev-cell step, clears the guess
\* and resets the status of the cell it arrives at, leaves every other cell
\* unchanged, and returns the cursor on the cleared cell.  (The cell it left
\* is among the others unless the step arrives on that same cell.)
C10_Backspace ==
    [][lastOp' = "backspace" =>
        /\ raised' = NoError
        /\ cursor' = PrevCell(cursor)
        /\ guess'[cursor'.square] = None
        /\ status'[cursor'.square] = NORMAL
        /\ \A sq \in Squares \ {cursor'.square} :
                guess'[sq] = guess[sq] /\ status'[sq] = status[sq]]_vars

\* backspace has wrapped from the first cell of a direction to the last cell
\* of the other, and the cell it left still holds its guess
C10_Witness ==
    /\ lastOp = "backspace"
    /\ cursor.direction # from.direction
    /\ cursor.square # from.square
    /\ guess[from.square] # None
    /\ guess[cursor.square] = None

\* the cursor and the squares' fields, as a chain of editing calls hands them on
Here == Edited(Return(cursor), Cells(guess, status))

RECURSIVE TypeAll(_, _, _)
TypeAll(st, chars, ix) ==
    IF ix > Len(chars) \/ st.raised # NoError THEN st
    ELSE TypeAll(TypeIn(Cells(st.guess, st.status), Cursor(st.square, st.direction), chars[ix]),
                 chars, ix + 1)

RECURSIVE BackspaceTimes(_, _)
BackspaceTimes(st, n) ==
    IF n = 0 \/ st.raised # NoError THEN st
    ELSE BackspaceTimes(BackspaceIn(Cells(st.guess, st.status), Cursor(st.square, st.direction)),
                        n - 1)

\* type with each of the characters, then as many backspaces
TypeThenBackspace(chars) == BackspaceTimes(TypeAll(Here, chars, 1), Len(chars))

ValidChars == {char \in Chars : isalnum(char)}
TypedSeqs == UNION {[1..n -> ValidChars] : n \in 1..MaxTyped}

\* every cell of the cursor's run in the cursor's direction has a guess
RunFilled == \A ix \in DOMAIN WordAt(cursor).squares : guess[WordAt(cursor).squares[ix]] # None

\* the squares that typing n characters from the cursor writes
TypedInto(n) == {NextTimes(Return(cursor), m).square : m \in 0..(n - 1)}

\* C11 as stated: from a run whose cells are filled, typing k valid
\* characters and then k backspaces restores the guesses the run's cells held
\* before the typing.
C11_TypingRoundTrip ==
    RunFilled =>
        \A chars \in TypedSeqs :
            \A ix \in DOMAIN WordAt(cursor).squares :
                TypeThenBackspace(chars).guess[WordAt(cursor).squares[ix]]
                    = guess[WordAt(cursor).squares[ix]]

\* C11, amended: from a run whose cells are filled, typing k valid characters
\* and then k backspaces raises nothing, returns the cursor to its cell and
\* direction, leaves every cell typed into empty with status NORMAL, and
\* leaves every other cell as it was.
C11_TypeThenBackspaceClears ==
    RunFilled =>
        \A chars \in TypedSeqs :
            \A res \in {TypeThenBackspace(chars)}, typed \in {TypedInto(Len(chars))} :
                /\ res.raised = NoError
                /\ Cursor(res.square, res.direction) = cursor
                /\ \A sq \in typed : res.guess[sq] = None /\ res.status[sq] = NORMAL
                /\ \A sq \in Squares \ typed :
                     res.guess[sq] = guess[sq] /\ res.status[sq] = status[sq]

\* the cursor is in a filled run of two cells or more, the second of them
\* pencilled in, and typing two characters and taking them back empties both
C11_Witness ==
    /\ RunFilled
    /\ Len(WordAt(cursor).squares) >= 2
    /\ cursor.square = FirstOf(WordAt(cursor))
    /\ \E sq \in Squares : status[sq] = PENCILLED_IN
    /\ TypeThenBackspace(<<"a", "B">>).guess[cursor.square] = None
    /\ TypeThenBackspace(<<"a", "B">>).guess[sqnext[cursor.square][cursor.direction]] = None

\* the squares that carry a clue number, in row-major order
StartCells == SelectSeq(itersquares, LAMBDA sq : clue_number(sq) # None)

\* C12: the run-start cells, taken in row-major order, carry the clue numbers
\* 1, 2, 3, ... without gap or repeat; every run has the number of its first
\* cell, so the two runs that start on one cell share a number; and the runs
\* of each direction are listed in strictly ascending order of their numbers.
C12_ClueNumbers ==
    /\ \A ix \in 1..Len(StartCells) : clue_number(StartCells[ix]) = <<ix>>
    /\ \A dir \in Directions : \A ix \in 1..Len(words[dir]) :
            /\ clue_number(words[dir][ix].squares[1]) = <<words[dir][ix].number>>
            /\ ix > 1 => words[dir][ix - 1].number < words[dir][ix].number
    /\ \A sq \in Squares :
            (is_start(sq, ACROSS) /\ is_start(sq, DOWN)) =>
                WordAt(Cursor(sq, ACROSS)).number = WordAt(Cursor(sq, DOWN)).number
    /\ \A sq \in Squares : \A dir \in Directions :
            is_start(sq, dir) <=> \E ix \in 1..Len(StartCells) :
                                    /\ StartCells[ix] = sq
                                    /\ WordAt(Cursor(sq, dir)).number = ix

\* a grid with a blocked entry in which one cell starts a run in both
\* directions, a later cell starts a run in one direction only, a cell starts
\* none, and the numbers go up to four or more
C12_Witness ==
    /\ Cardinality(Squares) < width * height
    /\ \E sq \in Squares : is_start(sq, ACROSS) /\ is_start(sq, DOWN)
    /\ \E sq \in Squares :
            /\ is_start(sq, ACROSS) # is_start(sq, DOWN)
            /\ clue_number(sq) # None
            /\ clue_number(sq)[1] > 1
    /\ \E sq \in Squares : clue_number(sq) = None
    /\ Len(StartCells) >= 4

\* the step from a cell of a run to the next one, by direction
Along(dir) == IF dir = ACROSS THEN <<1, 0>> ELSE <<0, 1>>

\* no cell at a position: it is outside the grid or blocked
NoCellAt(px, py) == ~InBounds(px, py) \/ grid[py + 1][px + 1] = None

\* the runs of a direction that hold a square
RunsHolding(sq, dir) ==
    {ix \in 1..Len(words[dir]) :
        \E kk \in 1..Len(words[dir][ix].squares) : words[dir][ix].squares[kk] = sq}

\* C13: in each direction every run is a maximal contiguous sequence of
\* non-blocked cells along the axis (a blocked cell or the grid edge on both
\* ends, runs of length 1 included); every non-blocked cell lies in exactly
\* one run per direction and refers back to it; a blocked position holds no
\* cell, and every other position the cell with its coordinates.
C13_RunsAreMaximal ==
    /\ \A dir \in Directions : \A ix \in 1..Len(words[dir]) :
            LET run == words[dir][ix].squares
            IN /\ Len(run) >= 1
               /\ \A kk \in 1..Len(run) :
                    /\ run[kk] \in Squares
                    /\ run[kk] = <<run[1][1] + (kk - 1) * Along(dir)[1],
                                   run[1][2] + (kk - 1) * Along(dir)[2]>>
               /\ NoCellAt(run[1][1] - Along(dir)[1], run[1][2] - Along(dir)[2])
               /\ NoCellAt(run[Len(run)][1] + Along(dir)[1], run[Len(run)][2] + Along(dir)[2])
    /\ \A sq \in Squares : \A dir \in Directions :
            /\ dir \in DOMAIN sqword[sq]
            /\ RunsHolding(sq, dir) = {sqword[sq][dir]}
    /\ \A px \in 0..(width - 1), py \in 0..(height - 1) :
            /\ get_square(px, py).raised = NoError
            /\ get_square(px, py).square \in {None, <<px, py>>}
            /\ get_square(px, py).square = None <=> <<px, py>> \notin Squares

\* a grid in which a blocked entry cuts a row into two runs, with a run of
\* length 1 and a run of length 3 somewhere
C13_Witness ==
    /\ \E ix \in 1..Len(words[ACROSS]) :
            /\ words[ACROSS][ix].squares[1][1] > 0
            /\ grid[words[ACROSS][ix].squares[1][2] + 1][words[ACROSS][ix].squares[1][1]] = None
    /\ \E dir \in Directions : \E ix \in 1..Len(words[dir]) : Len(words[dir][ix].squares) = 1
    /\ \E dir \in Directions : \E ix \in 1..Len(words[dir]) : Len(words[dir][ix].squares) = 3

\* C14: in each direction the runs are doubly linked in the order of the run
\* list: the first run has no prev, the last no next, every other link is
\* set to the neighbour in the list, and run.next.prev is the run itself.
C14_RunLinks ==
    \A dir \in Directions :
        LET ws == words[dir]
        IN /\ Len(ws) >= 1 => (ws[1].prev = 0 /\ ws[Len(ws)].next = 0)
           /\ \A ix \in 1..(Len(ws) - 1) :
                /\ ws[ix].next = ix + 1
                /\ ws[ws[ix].next].prev = ix
           /\ \A ix \in 2..Len(ws) :
                /\ ws[ix].prev = ix - 1
                /\ ws[ws[ix].prev].next = ix

\* a direction with three runs or more, so that a run has both links set
C14_Witness ==
    \E dir \in Directions :
        /\ Len(words[dir]) >= 3
        /\ words[dir][2].prev = 1
        /\ words[dir][2].next = 3
        /\ Len(words[other(dir)]) >= 2

\* the squares met walking next[dir] from first_square(dir)
ChainWalk(dir) ==
    LET pairs == WalkNext(first_square(dir).square, dir)
    IN [ix \in 1..Len(pairs) |-> pairs[ix][1]]

\* C15: in each direction the cells form one doubly-linked chain across the
\* runs: the walk along next[dir] from first_square(dir) meets every
\* non-blocked cell exactly once, run after run in the order of the run list
\* and in cell order inside each run; next[dir] is none at the last cell of
\* the last run only, prev[dir] at the first cell of the first run only, and
\* c.next[dir].prev[dir] is c wherever next[dir] is set.
C15_CellChain ==
    \A dir \in Directions :
        /\ first_square(dir).raised = NoError
        /\ last_square(dir).raised = NoError
        /\ ChainWalk(dir) = Chain(words[dir], 1)
        /\ Len(ChainWalk(dir)) = Cardinality(Squares)
        /\ \A sq \in Squares : Occurrences(ChainWalk(dir), sq) = 1
        /\ \A sq \in Squares :
            /\ sqnext[sq][dir] = None <=> sq = last_square(dir).square
            /\ sqprev[sq][dir] = None <=> sq = first_square(dir).square
            /\ sqnext[sq][dir] # None => sqprev[sqnext[sq][dir]][dir] = sq
            /\ sqprev[sq][dir] # None => sqnext[sqprev[sq][dir]][dir] = sq

\* a grid with a blocked entry where, in both directions, the chain goes on
\* from the last cell of one run to the first cell of the next
C15_Witness ==
    /\ Cardinality(Squares) < width * height
    /\ \A dir \in Directions :
            /\ Len(words[dir]) >= 2
            /\ sqnext[LastOf(words[dir][1])][dir] = FirstOf(words[dir][2])
            /\ sqprev[FirstOf(words[dir][2])][dir] = LastOf(words[dir][1])
    /\ \E ix \in 1..Len(words[ACROSS]) : Len(words[ACROSS][ix].squares) >= 2

\* C16: get_square(x, y) raises IndexError exactly when (x, y) is outside
\* 0 <= x < width, 0 <= y < height, negative coordinates included; inside, it
\* returns None at a blocked position and otherwise the square whose
\* coordinates are (x, y).
C16_GetSquare ==
    lastOp = "get_square" =>
        LET px == lastArg[1]
            py == lastArg[2]
        IN /\ raised = "IndexError" <=> ~(0 <= px /\ px < width /\ 0 <= py /\ py < height)
           /\ raised \in {NoError, "IndexError"}
           /\ raised = NoError =>
                returned = (IF <<px, py>> \in Squares THEN <<px, py>> ELSE None)

\* a lookup with a negative coordinate has raised, in a grid where a lookup
\* inside the bounds would find a blocked position
C16_Witness ==
    /\ lastOp = "get_square"
    /\ lastArg[1] = -1
    /\ lastArg[2] \in 0..(height - 1)
    /\ raised = "IndexError"
    /\ \E px \in 0..(width - 1), py \in 0..(height - 1) : get_square(px, py).square = None

\* the cells of the line through a square: its row for ACROSS, its column for DOWN
LineOf(sq, dir) ==
    IF dir = ACROSS THEN {to \in Squares : to[2] = sq[2]} ELSE {to \in Squares : to[1] = sq[1]}

\* the cell of a line nearest to the left or top edge, and the one farthest from it
LineStart(line) == CHOOSE sq \in line : \A to \in line : sq[1] + sq[2] <= to[1] + to[2]
LineEnd(line) == CHOOSE sq \in line : \A to \in line : sq[1] + sq[2] >= to[1] + to[2]

\* C17: zero and dollar go to the leftmost / rightmost non-blocked cell of
\* the cursor's whole row when the direction is ACROSS and to the topmost /
\* bottommost non-blocked cell of its whole column when it is DOWN, across
\* blocked cells and run boundaries; they keep the direction, and the same
\* jump made again from where it arrived stays there.
C17_LineJumps ==
    lastOp \in {"zero", "dollar"} =>
        LET line == LineOf(from.square, from.direction)
        IN /\ raised = NoError
           /\ cursor.direction = from.direction
           /\ cursor.square = (IF lastOp = "zero" THEN LineStart(line) ELSE LineEnd(line))
           /\ (IF lastOp = "zero" THEN zero(cursor) ELSE dollar(cursor)) = Return(cursor)

\* dollar has gone down a column past a blocked entry
C17_Witness ==
    /\ lastOp = "dollar"
    /\ from.direction = DOWN
    /\ cursor.square[1] = from.square[1]
    /\ cursor.square[2] = from.square[2] + 2
    /\ grid[from.square[2] + 2][from.square[1] + 1] = None
    /\ WordAt(cursor) # WordAt(from)

\* C18 as stated: gg goes to the first cell of the first run of the active
\* direction and G without a count to the last cell of its last run, from
\* every starting cell.
C18_GridFirstLast ==
    /\ lastOp = "gg" => cursor = Cursor(first_square(from.direction).square, from.direction)
    /\ (lastOp = "G" /\ lastArg = None) =>
            cursor = Cursor(last_square(from.direction).square, from.direction)

\* C18, amended: gg and G without a count raise nothing, keep the direction
\* and stay in the line that crosses the direction through the cursor: with
\* ACROSS, gg goes to the topmost and G to the bottommost non-blocked cell of
\* the cursor's column; with DOWN, gg goes to the leftmost and G to the
\* rightmost non-blocked cell of the cursor's row.
C18_CrossLineJumps ==
    (lastOp = "gg" \/ (lastOp = "G" /\ lastArg = None)) =>
        LET line == LineOf(from.square, other(from.direction))
        IN /\ raised = NoError
           /\ cursor.direction = from.direction
           /\ cursor.square = (IF lastOp = "gg" THEN LineStart(line) ELSE LineEnd(line))

\* gg, called with ACROSS away from the first column, has gone up the
\* cursor's column and not to the first cell of the first across run
C18_Witness ==
    /\ lastOp = "gg"
    /\ from.direction = ACROSS
    /\ from.square[1] > 0
    /\ cursor.square[1] = from.square[1]
    /\ cursor.square[2] < from.square[2]
    /\ cursor.square # first_square(ACROSS).square
    /\ <<0, 0>> \in Squares

\* the cells that start a run with a number, in either direction
StartsOf(number) ==
    {sq \in Squares : \E dir \in Directions :
        is_start(sq, dir) /\ WordAt(Cursor(sq, dir)).number = number}

\* C19: G with a clue number n, and the command ":n", raise nothing, keep
\* the direction and go to the one cell that starts a run numbered n, in
\* either direction; when no run has the number they return the cursor as it
\* was.
C19_GoToClue ==
    (lastOp \in {"G", ":"} /\ lastArg # None) =>
        LET starts == StartsOf(lastArg[1])
        IN /\ raised = NoError
           /\ Cardinality(starts) <= 1
           /\ starts = {} => cursor = from
           /\ starts # {} => (cursor.square \in starts /\ cursor.direction = from.direction)

\* G with a number has gone, with ACROSS, to a cell that starts a down run
\* only, and that is not the first cell of the across run of that place in
\* the list
C19_Witness ==
    /\ lastOp = "G"
    /\ lastArg # None
    /\ from.direction = ACROSS
    /\ cursor.direction = ACROSS
    /\ cursor.square # from.square
    /\ is_start(cursor.square, DOWN)
    /\ ~is_start(cursor.square, ACROSS)
    /\ WordAt(Cursor(cursor.square, DOWN)).number = lastArg[1]

\* the glyphs of a line that are not terminal escape sequences
Visible(line) == SelectSeq(line, LAMBDA glyph : glyph[1] # "esc")

\* C20: render_grid yields 2 * height + 1 lines, and every line has
\* 4 * width + 1 visible glyphs once the escape sequences are removed.
C20_RenderedSize ==
    lastOp = "render_grid" =>
        /\ raised = NoError
        /\ Len(returned) = 2 * height + 1
        /\ \A n \in 1..Len(returned) : Len(Visible(returned[n])) = 4 * width + 1

\* the corners of the rectangle that encloses the cursor's run
RunFirst == WordAt(cursor).squares[1]
RunLast == WordAt(cursor).squares[Len(WordAt(cursor).squares)]

\* the edge from vertex (vx, vy) to the right is the top or the bottom side
\* of that rectangle; the edge from (vx, vy) downwards is its left or right
OnHorizontalSide(vx, vy) ==
    /\ vx \in RunFirst[1]..RunLast[1]
    /\ vy \in {RunFirst[2], RunLast[2] + 1}
OnVerticalSide(vx, vy) ==
    /\ vy \in RunFirst[2]..RunLast[2]
    /\ vx \in {RunFirst[1], RunLast[1] + 1}

\* the edge glyphs (of one shape) among the glyphs of a piece
EdgesOf(glyphs, shape) ==
    SelectSeq(glyphs, LAMBDA glyph : glyph[1] = "box" /\ glyph[2] = shape)

\* C21: in every rendering the heavy edge glyphs are those of the four sides of the rectangle
\* around the cursor's run, every other edge glyph is light, and no lookup
\* in the glyph table fails.
C21_HeavyBorder ==
    lastOp = "render_grid" =>
        /\ raised = NoError
        /\ Len(returned) = 2 * height + 1
        /\ \A vx \in 0..width, vy \in 0..height :
                BoxLookup(VertexShape(vx, vy), BoldnessAt(cursor, vx, vy)).raised = NoError
        /\ \A vx \in 0..(width - 1), vy \in 0..height :
                \A edges \in {EdgesOf(VertexPiece(cursor, vx, vy).glyphs, HORIZONTAL)} :
                    /\ Len(edges) >= 1
                    /\ \A ix \in 1..Len(edges) :
                            edges[ix][3] = (IF OnHorizontalSide(vx, vy) THEN HORIZONTAL ELSE NONE)
        /\ \A vx \in 0..width, vy \in 0..(height - 1) :
                \A edges \in {EdgesOf(ContentPiece(cursor, vx, vy).glyphs, VERTICAL)} :
                    /\ Len(edges) = 1
                    /\ edges[1][3] = (IF OnVerticalSide(vx, vy) THEN VERTICAL ELSE NONE)

\* a grid has been rendered with the cursor in a run of two cells or more
\* that lies on neither the top nor the left border and ends at the bottom
\* or the right border
C21_Witness ==
    /\ lastOp = "render_grid"
    /\ raised = NoError
    /\ Len(WordAt(cursor).squares) >= 2
    /\ RunFirst[1] > 0
    /\ RunFirst[2] > 0
    /\ RunLast[1] = width - 1 \/ RunLast[2] = height - 1

\* a line without the boldness of its box-drawing characters
Unemphasized(line) ==
    [ix \in 1..Len(line) |->
        IF line[ix][1] = "box" THEN <<"box", line[ix][2]>> ELSE line[ix]]

\* the rendering with a cursor on the same square in the other direction
Turned == render_grid(Cursor(cursor.square, other(cursor.direction)))

\* C22: the renderings of one grid with the cursor on one square in the two
\* directions differ only in the boldness of box-drawing characters and of
\* clue numbers: both end alike, the content rows are the same glyph for
\* glyph but for the boldness of the edges, and the vertex rows are the same
\* but for boldness.
C22_DirectionKeepsInteriors ==
    lastOp = "render_grid" =>
        \A turned \in {Turned} :
            /\ turned.raised = raised
            /\ Len(turned.lines) = Len(returned)
            /\ \A n \in 1..Len(returned) :
                    IF n % 2 = 0
                    THEN Unemphasized(turned.lines[n]) = Unemphasized(returned[n])
                    ELSE Unemphasized(Visible(turned.lines[n]))
                            = Unemphasized(Visible(returned[n]))

\* a grid with a pencilled-in guess and an empty square has been rendered, and
\* the rendering in the other direction is another one
C22_Witness ==
    /\ lastOp = "render_grid"
    /\ raised = NoError
    /\ \E sq \in Squares : guess[sq] # None /\ status[sq] = PENCILLED_IN
    /\ \E sq \in Squares : guess[sq] = None
    /\ Turned.lines # returned

\* the upper-case form of each character that set accepts, and those of them
\* that are upper-case letters
UpperCaseForm(char) ==
    CASE char = "a" -> "A"
      [] char = "B" -> "B"
      [] char = "1" -> "1"
      [] char = "sharp s" -> "SS"
UpperCaseLetters == {"B"}

\* C23: set(c) with an alphanumeric c raises nothing, stores the upper-case
\* form of c as the guess of the square, makes its status PENCILLED_IN when c
\* is an upper-case letter and NORMAL otherwise, whatever the status was, and
\* leaves the other squares alone.
C23_SetNormalizes ==
    [][lastOp' = "set" =>
        /\ raised' = NoError
        /\ guess'[cursor.square] = <<UpperCaseForm(lastArg'[1])>>
        /\ status'[cursor.square] =
                (IF lastArg'[1] \in UpperCaseLetters THEN PENCILLED_IN ELSE NORMAL)
        /\ \A sq \in Squares \ {cursor.square} :
                guess'[sq] = guess[sq] /\ status'[sq] = status[sq]]_vars

\* set has stored a lower-case letter, after two earlier calls, in a grid
\* where another square is marked or revealed
C23_Witness ==
    /\ lastOp = "set"
    /\ lastArg = <<"a">>
    /\ edits = 3
    /\ guess[cursor.square] = <<"A">>
    /\ status[cursor.square] = NORMAL
    /\ \E sq \in Squares : status[sq] \in {MARKED_WRONG, MARKED_RIGHT, REVEALED}

\* C24: tilde raises nothing and changes no guess; on a filled square it
\* changes the status to one of NORMAL and PENCILLED_IN, NORMAL becoming
\* PENCILLED_IN and PENCILLED_IN becoming NORMAL; on an empty square it
\* changes no status; it changes no other square; and the cursor goes one
\* plain step to the next cell.
C24_Tilde ==
    [][lastOp' = "tilde" =>
        /\ raised' = NoError
        /\ guess' = guess
        /\ \A sq \in Squares \ {cursor.square} : status'[sq] = status[sq]
        /\ IF guess[cursor.square] # None
           THEN /\ status'[cursor.square] \in {NORMAL, PENCILLED_IN}
                /\ status'[cursor.square] # status[cursor.square]
                /\ status[cursor.square] = NORMAL => status'[cursor.square] = PENCILLED_IN
                /\ status[cursor.square] = PENCILLED_IN => status'[cursor.square] = NORMAL
           ELSE status'[cursor.square] = status[cursor.square]
        /\ cursor' = NextCell(cursor)]_vars

\* tilde has gone from a filled square, now of status NORMAL, to another
\* square, which is empty
C24_Witness ==
    /\ lastOp = "tilde"
    /\ guess[from.square] # None
    /\ status[from.square] = NORMAL
    /\ cursor.square # from.square
    /\ guess[cursor.square] = None

\* C25: building the grid from a solution string whose length is not a whole
\* number of rows of the declared width fails with a shape error and
\* produces no grid.
C25_ShapeError ==
    (lastOp = "Puzzle" /\ Len(lastArg[1]) % lastArg[2] # 0) =>
        /\ raised = "ShapeError"
        /\ returned = None

\* the positions a unit step from the cursor examines, in each of the four
\* directions
UnitSteps == {<<0 - 1, 0>>, <<1, 0>>, <<0, 0 - 1>>, <<0, 1>>}
StepsExamined(step) ==
    MoveExamined(cursor, cursor.square[1], cursor.square[2], step[1], step[2])

\* the number of non-blocked cells
CellCount == Cardinality(Squares)

\* C26 as stated: a unit step examines at most width + height positions, and
\* next_squares and prev_squares yield at most as many pairs as there are
\* non-blocked cells.
C26_ScanBounds ==
    /\ \A step \in UnitSteps : StepsExamined(step) <= width + height
    /\ Len(next_squares(cursor).pairs) <= CellCount
    /\ Len(prev_squares(cursor).pairs) <= CellCount

\* C26, amended: a unit step examines at most width + height positions, and
\* next_squares and prev_squares end without an exception after at most
\* 2 * N - 1 pairs, N being the number of non-blocked cells.
C26_ScanBoundsTwice ==
    /\ \A step \in UnitSteps : StepsExamined(step) <= width + height
    /\ next_squares(cursor).raised = NoError
    /\ prev_squares(cursor).raised = NoError
    /\ Len(next_squares(cursor).pairs) <= 2 * CellCount - 1
    /\ Len(prev_squares(cursor).pairs) <= 2 * CellCount - 1

\* "]]" found no filled square in a grid of more than one cell with a
\* blocked entry: it went through every pair next_squares yields, more than
\* there are cells, and a unit step from here examines more than one position
C26_Witness ==
    /\ lastOp = "]]"
    /\ cursor = from
    /\ Len(next_squares(from).pairs) > CellCount
    /\ \E step \in UnitSteps : StepsExamined(step) >= 2

\* C27: Square.render fails for no square, whatever its status, and
\* render_grid completes with all its lines in every state that edits, check
\* commands and reveal commands lead to.
C27_RenderSucceeds ==
    /\ \A sq \in Squares : render(sq).raised = NoError
    /\ lastOp = "render_grid" => raised = NoError /\ Len(returned) = 2 * height + 1

\* the squares of a list from one place to another, each paired with a
\* direction
PairsOf(list, lo, hi, dir) == [ix \in 1..(hi - lo + 1) |-> <<list[lo + ix - 1], dir>>]

\* the pairs C28 lists for the cursor: the cursor's chain after its square,
\* the whole chain of the other direction, the cursor's chain before its
\* square
AfterOtherBefore ==
    LET dir   == cursor.direction
        chain == ChainOf(dir)
        pos   == IndexIn(chain, cursor.square)
        cross == ChainOf(other(dir))
    IN PairsOf(chain, pos + 1, Len(chain), dir)
           \o PairsOf(cross, 1, Len(cross), other(dir))
           \o PairsOf(chain, 1, pos - 1, dir)

\* C28: next_squares yields 2 * N - 1 pairs, every (square, direction) pair
\* but the cursor's own once, in the order after - other - before, and
\* prev_squares yields the same pairs in the reverse order.
C28_NextSquaresOrder ==
    \A pairs \in {next_squares(cursor).pairs} :
        /\ next_squares(cursor).raised = NoError
        /\ prev_squares(cursor).raised = NoError
        /\ pairs = AfterOtherBefore
        /\ Len(pairs) = 2 * CellCount - 1
        /\ {pairs[ix] : ix \in 1..Len(pairs)}
                = (Squares \X Directions) \ {<<cursor.square, cursor.direction>>}
        /\ prev_squares(cursor).pairs = Reversed(pairs)

\* a scan has brought the cursor to a square inside its chain, with squares
\* before and after it, in a grid with a blocked entry
C28_Witness ==
    /\ lastOp \in {"go_to_next_square", "go_to_prev_square"}
    /\ cursor # from
    /\ sqprev[cursor.square][cursor.direction] # None
    /\ sqnext[cursor.square][cursor.direction] # None
    /\ CellCount < width * height
    /\ Len(next_squares(cursor).pairs) >= 5

\* C29: in every state the status of each square agrees with its guess: an
\* empty square is NORMAL, a square MARKED_RIGHT or REVEALED holds its
\* solution, and a square MARKED_WRONG holds a guess that is not its solution.
C29_StatusAgreesWithGuess ==
    \A sq \in Squares :
        /\ guess[sq] = None => status[sq] = NORMAL
        /\ status[sq] \in {MARKED_RIGHT, REVEALED} => guess[sq] = <<solution[sq]>>
        /\ status[sq] = MARKED_WRONG => guess[sq] # None /\ guess[sq] # <<solution[sq]>>

\* after three calls one square is marked wrong, another marked right, and
\* the last call was a check
C29_Witness ==
    /\ edits = 3
    /\ lastOp \in {":cs", ":cw", ":cp"}
    /\ \E sq \in Squares : status[sq] = MARKED_WRONG
    /\ \E sq \in Squares : status[sq] = MARKED_RIGHT

\* the names of the pure motions, and of those that keep the direction
PureMotions ==
    {"h", "j", "k", "l", "w", "b", "e", "ge", "gg", "G", "zero", "dollar", "space",
     "]]", "[[", "}", "{"}
KeepDirection == {"h", "j", "k", "l", "gg", "G", "zero", "dollar"}

\* C30: a pure motion changes no guess and no status and leaves the cursor
\* it was called on as it was; h, j, k, l, gg, G, zero and dollar hand back
\* the direction they were called with, and space the square it was called
\* on.
C30_PureMotions ==
    [][lastOp' \in PureMotions =>
        /\ guess' = guess
        /\ status' = status
        /\ from' = cursor
        /\ lastOp' \in KeepDirection => cursor'.direction = cursor.direction
        /\ lastOp' = "space" => cursor'.square = cursor.square]_vars

\* space has turned the cursor on a square of a grid that holds a
\* pencilled-in guess
C30_Witness ==
    /\ lastOp = "space"
    /\ cursor.square = from.square
    /\ cursor.direction # from.direction
    /\ \E sq \in Squares : guess[sq] # None /\ status[sq] = PENCILLED_IN

\* the squares of the active run, read off the grid: those on the cursor's
\* line (its row when ACROSS, its column when DOWN) with no blocked entry
\* between them and the cursor's square
ActiveRun ==
    LET axis == IF cursor.direction = ACROSS THEN 1 ELSE 2
        fixed == IF cursor.direction = ACROSS THEN 2 ELSE 1
        between(sq) ==
            {pos \in 0..(width + height) :
                \/ sq[axis] < pos /\ pos < cursor.square[axis]
                \/ cursor.square[axis] < pos /\ pos < sq[axis]}
        at(pos) == IF axis = 1 THEN <<pos, cursor.square[2]>> ELSE <<cursor.square[1], pos>>
    IN {sq \in Squares :
            /\ sq[fixed] = cursor.square[fixed]
            /\ \A pos \in between(sq) : at(pos) \in Squares}

\* the first square of the active run
ActiveRunStart ==
    CHOOSE sq \in ActiveRun : \A sq2 \in ActiveRun : sq[1] <= sq2[1] /\ sq[2] <= sq2[2]

\* the squares of a set are empty and NORMAL afterwards, all others as before
ClearsExactly(cleared) ==
    /\ \A sq \in cleared : guess'[sq] = None /\ status'[sq] = NORMAL
    /\ \A sq \in Squares \ cleared : guess'[sq] = guess[sq] /\ status'[sq] = status[sq]

\* C31: cw and dw clear the squares of the active run and no other; cw puts
\* the cursor on the first square of the run and dw leaves it where it was,
\* both with the direction kept; x clears the cursor's square only and does
\* not move the cursor.  None of them raises.
C31_ClearRun ==
    [][/\ lastOp' = "cw" =>
            /\ raised' = NoError
            /\ ClearsExactly(ActiveRun)
            /\ cursor' = Cursor(ActiveRunStart, cursor.direction)
       /\ lastOp' = "dw" =>
            /\ raised' = NoError
            /\ ClearsExactly(ActiveRun)
            /\ cursor' = cursor
       /\ lastOp' = "x" =>
            /\ raised' = NoError
            /\ ClearsExactly({cursor.square})
            /\ cursor' = cursor]_vars

\* dw, the third call, has left the cursor where it was, in a run whose
\* squares are all empty now, while a square outside the run keeps a guess
\* and a status other than NORMAL
C31_Witness ==
    /\ lastOp = "dw"
    /\ edits = 3
    /\ cursor = from
    /\ \A sq \in ActiveRun : guess[sq] = None
    /\ \E sq \in Squares \ ActiveRun : guess[sq] # None /\ status[sq] # NORMAL

\* C32: when Escape is read in INSERT mode, the game is in NORMAL mode and
\* the message is not "-- INSERT --" once handle_input is done, whatever was
\* read before.
C32_EscapeLeavesInsert ==
    [][(lastOp' = "handle_input" /\ mode = MODE_INSERT
            /\ \E ix \in 1..Len(lastArg') : lastArg'[ix] = "esc") =>
        /\ mode' = MODE_NORMAL
        /\ message' # INSERT_MESSAGE]_vars

\* C33: after every turn of the loop the message is the congratulation only
\* if every square holds its solution.
C33_CongratsOnlyWhenSolved ==
    (lastOp = "handle_input" /\ message = CONGRATS) =>
        \A sq \in Squares : guess[sq] = <<solution[sq]>>

====
